---------------------------- MODULE Spec2Model ----------------------------
(***************************************************************************)
(* A model of image-janitor: the driver clean-up (src/src/driver.rs), the  *)
(* rule loader (src/src/config.rs) and the firmware symlink resolver       *)
(* (src/src/firmware.rs).                                                  *)
(*                                                                         *)
(* Strings and paths are sequences of one-character strings, so that the   *)
(* string operations of the code (split, trim, strip_prefix, regex match)  *)
(* are computed rather than assumed.                                       *)
(***************************************************************************)
EXTENDS Integers, Sequences, FiniteSets, TLC

(***************************************************************************)
(* Bounds of the model.                                                    *)
(***************************************************************************)
\* Total number of modinfo "depends" entries (or failures) over all modules.
MaxEdges == 3
\* Number of lines of the rule file.
MaxRules == 3
\* Number of symbolic links l1, l2, ... in the firmware directory.
MaxChain == 12

\* The iterations of the while loop of cleanup_drivers that are followed.
MaxPops == 8

(***************************************************************************)
(* String helpers.                                                         *)
(***************************************************************************)
WhiteSpace == {" ", "\t", "\n"}

WordChars ==
    {"a", "b", "c", "d", "e", "f", "g", "h", "i", "j", "k", "l", "m", "n",
     "o", "p", "q", "r", "s", "t", "u", "v", "w", "x", "y", "z", "_",
     "0", "1", "2", "3", "4", "5", "6", "7", "8", "9"}

StartsWith(s, prefix) ==
    /\ Len(prefix) <= Len(s)
    /\ SubSeq(s, 1, Len(prefix)) = prefix

EndsWith(s, suffix) ==
    /\ Len(suffix) <= Len(s)
    /\ SubSeq(s, Len(s) - Len(suffix) + 1, Len(s)) = suffix

\* Index of the first character of s not in set cs, Len(s)+1 when there is none.
RECURSIVE SkipWhile(_, _, _)
SkipWhile(s, i, cs) ==
    IF i <= Len(s) /\ s[i] \in cs THEN SkipWhile(s, i + 1, cs) ELSE i

\* str::trim: leading and trailing white space removed.
RECURSIVE TrimEnd(_)
TrimEnd(s) ==
    IF Len(s) > 0 /\ s[Len(s)] \in WhiteSpace
    THEN TrimEnd(SubSeq(s, 1, Len(s) - 1))
    ELSE s

Trim(s) ==
    LET t == TrimEnd(s)
        i == SkipWhile(t, 1, WhiteSpace)
    IN  SubSeq(t, i, Len(t))

\* str::split(sep): the pieces of s between occurrences of the character sep
\* (always at least one piece, possibly empty).
RECURSIVE Split(_, _)
Split(s, sep) ==
    IF \E i \in 1..Len(s) : s[i] = sep
    THEN LET i == CHOOSE j \in 1..Len(s) :
                     /\ s[j] = sep
                     /\ \A k \in 1..(j - 1) : s[k] # sep
         IN  <<SubSeq(s, 1, i - 1)>> \o Split(SubSeq(s, i + 1, Len(s)), sep)
    ELSE <<s>>

Range(seq) == {seq[i] : i \in 1..Len(seq)}

\* All orders in which a finite set can be iterated.
RECURSIVE Perms(_)
Perms(S) ==
    IF S = {} THEN {<<>>}
    ELSE UNION {{<<x>> \o p : p \in Perms(S \ {x})} : x \in S}

\* The subsets of S with at most k elements.
RECURSIVE KSubsets(_, _)
KSubsets(S, k) ==
    IF k = 0 THEN {{}}
    ELSE LET smaller == KSubsets(S, k - 1)
         IN  smaller \cup {T \cup {x} : T \in smaller, x \in S}

(***************************************************************************)
(* Regex::is_match for the patterns of the model: literal characters and   *)
(* '.', which matches any character; the match is not anchored.            *)
(***************************************************************************)
MatchesAt(re, text, i) ==
    /\ i + Len(re) - 1 <= Len(text)
    /\ \A j \in 1..Len(re) : re[j] = "." \/ re[j] = text[i + j - 1]

is_match(re, text) ==
    \E i \in 1..(Len(text) + 1) : MatchesAt(re, text, i)

(***************************************************************************)
(* config.rs: the rule loader.                                             *)
(***************************************************************************)
\* str::lines: the text cut at line feeds; a final line feed ends the last
\* line and starts no new one.
Lines(content) ==
    LET pieces == Split(content, "\n")
    IN  IF pieces[Len(pieces)] = <<>>
        THEN SubSeq(pieces, 1, Len(pieces) - 1)
        ELSE pieces

\* start_tag_re, ^\s*<(\w+)\s*>\s*$ : the captured tag, or <<>> when the
\* line is no start tag (a tag has at least one character).
StartTag(line) ==
    LET open  == SkipWhile(line, 1, WhiteSpace)
        word  == open + 1
        after == SkipWhile(line, word, WordChars)
        close == SkipWhile(line, after, WhiteSpace)
        rest  == SkipWhile(line, close + 1, WhiteSpace)
    IN  IF /\ open <= Len(line) /\ line[open] = "<"
           /\ after > word
           /\ close <= Len(line) /\ line[close] = ">"
           /\ rest = Len(line) + 1
        THEN SubSeq(line, word, after - 1)
        ELSE <<>>

\* end_tag_re, ^\s*</\w+\s*>\s*$
IsEndTag(line) ==
    LET open  == SkipWhile(line, 1, WhiteSpace)
        word  == open + 2
        after == SkipWhile(line, word, WordChars)
        close == SkipWhile(line, after, WhiteSpace)
        rest  == SkipWhile(line, close + 1, WhiteSpace)
    IN  /\ open + 1 <= Len(line) /\ line[open] = "<" /\ line[open + 1] = "/"
        /\ after > word
        /\ close <= Len(line) /\ line[close] = ">"
        /\ rest = Len(line) + 1

\* ArchFilterLoop with an end tag that leaves skipping as it is.
RECURSIVE ArchFilterLoop_EndTagIgnored(_, _, _, _, _)
ArchFilterLoop_EndTagIgnored(lines, arch, i, skipping, filtered) ==
    IF i > Len(lines) THEN filtered
    ELSE IF StartTag(lines[i]) # <<>>
         THEN ArchFilterLoop_EndTagIgnored(lines, arch, i + 1,
                                           StartTag(lines[i]) # arch, filtered)
    ELSE IF IsEndTag(lines[i])
         THEN ArchFilterLoop_EndTagIgnored(lines, arch, i + 1, skipping,
                                           filtered)
    ELSE IF skipping
         THEN ArchFilterLoop_EndTagIgnored(lines, arch, i + 1, skipping,
                                           filtered)
    ELSE ArchFilterLoop_EndTagIgnored(lines, arch, i + 1, skipping,
                                      Append(filtered, lines[i]))

\* ArchFilterLoop with blocks that nest: a start tag met while skipping
\* leaves skipping on.
RECURSIVE ArchFilterLoop_Nested(_, _, _, _, _)
ArchFilterLoop_Nested(lines, arch, i, skipping, filtered) ==
    IF i > Len(lines) THEN filtered
    ELSE IF StartTag(lines[i]) # <<>>
         THEN ArchFilterLoop_Nested(lines, arch, i + 1,
                                    skipping \/ StartTag(lines[i]) # arch,
                                    filtered)
    ELSE IF IsEndTag(lines[i])
         THEN ArchFilterLoop_Nested(lines, arch, i + 1, FALSE, filtered)
    ELSE IF skipping
         THEN ArchFilterLoop_Nested(lines, arch, i + 1, skipping, filtered)
    ELSE ArchFilterLoop_Nested(lines, arch, i + 1, skipping,
                               Append(filtered, lines[i]))

\* The loop of arch_filter from line i on, with the lines kept so far.
\* (arch_tag is only written to the debug log and is left out.)
RECURSIVE ArchFilterLoop(_, _, _, _, _)
ArchFilterLoop(lines, arch, i, skipping, filtered) ==
    IF i > Len(lines) THEN filtered
    ELSE IF StartTag(lines[i]) # <<>>
         THEN ArchFilterLoop(lines, arch, i + 1, StartTag(lines[i]) # arch,
                             filtered)
    ELSE IF IsEndTag(lines[i])
         THEN ArchFilterLoop(lines, arch, i + 1, FALSE, filtered)
    ELSE IF skipping
         THEN ArchFilterLoop(lines, arch, i + 1, skipping, filtered)
    ELSE ArchFilterLoop(lines, arch, i + 1, skipping,
                        Append(filtered, lines[i]))

arch_filter(lines, arch) == ArchFilterLoop(lines, arch, 1, FALSE, <<>>)

\* The lines of all the rule files, in file order then line order.
RECURSIVE AllLines(_)
AllLines(contents) ==
    IF contents = <<>> THEN <<>>
    ELSE Lines(Head(contents)) \o AllLines(Tail(contents))

IsRuleLine(l) == l # <<>> /\ ~StartsWith(l, <<"#">>)

IsDeleteLine(l) == StartsWith(l, <<"-">>)

IsKeepLine(l) == ~IsDeleteLine(l)

\* StripDash leaving the line as it is.
StripDash_Whole(l) == l

\* str::strip_prefix('-') on a line that starts with '-'.
StripDash(l) == SubSeq(l, 2, Len(l))

StripDashAll(ls) == [i \in 1..Len(ls) |-> StripDash(ls[i])]

\* read_config: the keep patterns and the delete patterns.  (Every pattern
\* of the model compiles, so Regex::new does not fail.)
read_config(contents, arch) ==
    LET lines    == SelectSeq(AllLines(contents), IsRuleLine)
        filtered == arch_filter(lines, arch)
    IN  [to_keep   |-> SelectSeq(filtered, IsKeepLine),
         to_delete |-> StripDashAll(SelectSeq(filtered, IsDeleteLine))]


(***************************************************************************)
(* driver.rs: the inputs of a run of cleanup_drivers.                      *)
(***************************************************************************)
Slash == <<"/">>

\* The kernel directory found by util::find_kernel_dir.
KernelDir == <<"/", "k">>

A_KO == <<"a", ".", "k", "o">>
B_KO == <<"b", ".", "k", "o">>
C_KO == <<"c", ".", "k", "o">>
D_KO == <<"d", ".", "k", "o">>
\* A second module whose name stem is "a", in a sub-directory, compressed.
XA_KO_XZ == <<"x", "/", "a", ".", "k", "o", ".", "x", "z">>
\* A file of the kernel directory that is no module.
M_DEP == <<"m", ".", "d", "e", "p">>

InKernelDir(rel) == KernelDir \o Slash \o rel

\* The regular files under the kernel directory in the order WalkDir meets
\* them (the order the file system lists them in), in the layouts of the
\* model: without the second "a" module, with it met after a.ko, and with it
\* met before a.ko.
DiskLayouts ==
    LET base == <<InKernelDir(A_KO), InKernelDir(B_KO), InKernelDir(C_KO),
                  InKernelDir(D_KO), InKernelDir(M_DEP)>>
    IN  {base,
         Append(base, InKernelDir(XA_KO_XZ)),
         <<InKernelDir(XA_KO_XZ)>> \o base}

\* The names a module may list in its "depends" field; "z" is the name of
\* nothing in the kernel directory (built into the kernel).
DepNames == <<"z", "a", "b", "c">>

\* join(","): the text modinfo prints for a list of names.
RECURSIVE JoinNames(_)
JoinNames(names) ==
    IF names = <<>> THEN <<>>
    ELSE IF Len(names) = 1 THEN <<Head(names)>>
    ELSE <<Head(names), ",">> \o JoinNames(Tail(names))

\* What CommandRunner::run returns: Ok(text) or Err.
Ok(text) == [ok |-> TRUE, out |-> text]
Err == [ok |-> FALSE, out |-> <<>>]

\* The "depends" entries a module of the model may have, as <<file, name>>;
\* the name "!" stands for a failing modinfo.
DependsEntries ==
    {<<InKernelDir(A_KO), "a">>, <<InKernelDir(A_KO), "b">>,
     <<InKernelDir(A_KO), "z">>, <<InKernelDir(A_KO), "!">>,
     <<InKernelDir(B_KO), "a">>, <<InKernelDir(B_KO), "c">>,
     <<InKernelDir(B_KO), "z">>,
     <<InKernelDir(C_KO), "a">>, <<InKernelDir(C_KO), "b">>,
     <<InKernelDir(D_KO), "a">>,
     <<InKernelDir(XA_KO_XZ), "b">>, <<InKernelDir(XA_KO_XZ), "c">>}

\* The answers of "modinfo -F depends" given a set of entries.
DependsAnswers(files, entries) ==
    [f \in files |->
        IF <<f, "!">> \in entries THEN Err
        ELSE LET Listed(n) == <<f, n>> \in entries
             IN  Ok(JoinNames(SelectSeq(DepNames, Listed)))]

\* The lines a rule file of the model is made of.
RuleLines ==
    <<A_KO, <<"-">> \o A_KO, B_KO, <<"-">> \o B_KO>>

\* The text of a rule file holding the lines of RuleLines at the indices in
\* picked, one per line.
RECURSIVE RuleText(_, _)
RuleText(picked, i) ==
    IF i > Len(RuleLines) THEN <<>>
    ELSE (IF i \in picked THEN RuleLines[i] \o <<"\n">> ELSE <<>>)
             \o RuleText(picked, i + 1)

X86_64 == <<"x", "8", "6", "_", "6", "4">>

(***************************************************************************)
(* driver.rs: Driver::from_file.                                           *)
(***************************************************************************)
\* Path::file_name: what follows the last '/'.
RECURSIVE FileName(_)
FileName(path) ==
    IF \E i \in 1..Len(path) : path[i] = "/"
    THEN FileName(SubSeq(path, 1 + CHOOSE i \in 1..Len(path) : path[i] = "/",
                         Len(path)))
    ELSE path

\* Path::extension: what follows the last '.' of the file name; none (<<>>)
\* when the name has no '.' or only a leading one.
Extension(path) ==
    LET name   == FileName(path)
        pieces == Split(name, ".")
    IN  IF Len(pieces) = 1 THEN <<>>
        ELSE IF Len(pieces) = 2 /\ pieces[1] = <<>> THEN <<>>
        ELSE pieces[Len(pieces)]

NonEmpty(x) == x # <<>>

from_file(path, answer) ==
    LET deps_str == IF answer.ok THEN answer.out ELSE <<>>
    IN  [name |-> Head(Split(FileName(path), ".")),
         path |-> path,
         deps |-> SelectSeq(Split(Trim(deps_str), ","), NonEmpty)]

\* The test of lines 63-68 on a regular file.
IsModuleFile(path) ==
    \/ Extension(path) = <<"k", "o">>
    \/ EndsWith(path, <<".", "k", "o", ".", "x", "z">>)
    \/ EndsWith(path, <<".", "k", "o", ".", "z", "s", "t">>)

\* Path::strip_prefix(base) of a path under base.
StripPrefix(path, base) ==
    SubSeq(path, Len(base) + 2, Len(path))


(***************************************************************************)
(* The state.                                                              *)
(***************************************************************************)
VARIABLES
    pc,            \* where cleanup_drivers is: start, seed, closure, delete, done
    disk,          \* the regular files under the kernel directory, in walk order
    modinfo,       \* module file -> answer of "modinfo -F depends"
    config,        \* the texts of the rule files
    arch,          \* the answer of "arch"
    delete,        \* the delete argument
    to_keep_re,    \* the keep patterns
    to_delete_re,  \* the delete patterns
    driver_map,    \* HashMap: name -> Driver
    to_keep,       \* HashSet<Driver>
    worklist,      \* Vec<Driver>
    to_delete,     \* the drivers to delete
    runs,          \* closure harness: the keep sets of the finished closures
    pops,          \* the iterations of the while loop run so far
    pushes,        \* driver name -> how often the driver was pushed
    rs_pc,         \* where resolve_symlinks is: loop, done
    fs,            \* the file system: path -> [kind, target]
    base_dir,      \* the base_dir argument
    path,          \* the path argument
    paths_to_keep, \* Vec<PathBuf>
    current_path,
    hops,          \* the iterations of the for loop started so far
    result,        \* what resolve_symlinks returned: none, Ok, Err
    fw_pc,         \* where cleanup_firmware is: required, unused, dangling,
                   \* empty, done
    fw_tree,       \* the firmware tree: path -> [kind, target, size]
    fw_before,     \* the firmware tree when cleanup_firmware was called
    listing,       \* the order the file system lists a directory in
    kernel_modules, \* the modules still to be asked for their firmware
    firmware,      \* module file -> answer of "modinfo -F firmware"
    fw_delete,     \* the delete argument of cleanup_firmware
    required,      \* HashSet<PathBuf> of get_required_firmware
    required_fw,   \* the required paths relative to the firmware directory
    unused_size,
    walk,          \* the entries the current walk has still to yield
    dirs_to_check, \* the directories remove_empty_directories has still to see
    fw_result,     \* what cleanup_firmware returned: none, Ok, Command, Io
    cfg_pc,        \* where read_config is: start, lines, filtered, done
    cfg_lines,     \* the lines left after line 23
    filtered_lines,
    cfg_result     \* what read_config returned: none, Ok, Regex

drvVars ==
    <<pc, disk, modinfo, config, arch, delete, to_keep_re, to_delete_re,
      driver_map, to_keep, worklist, to_delete, runs, pops, pushes>>

symVars ==
    <<rs_pc, fs, base_dir, path, paths_to_keep, current_path, hops, result>>

fwVars ==
    <<fw_pc, fw_tree, fw_before, listing, kernel_modules, firmware, fw_delete, required,
      required_fw, unused_size, walk, dirs_to_check, fw_result>>

cfgVars == <<cfg_pc, cfg_lines, filtered_lines, cfg_result>>

vars == <<drvVars, symVars, fwVars, cfgVars>>

EmptyMap == [n \in {} |-> n]

\* No run of cleanup_drivers.
DrvIdle ==
    /\ pc = "idle"
    /\ disk = <<>>
    /\ modinfo = EmptyMap
    /\ config = <<>>
    /\ arch = <<>>
    /\ delete = FALSE
    /\ to_keep_re = <<>>
    /\ to_delete_re = <<>>
    /\ driver_map = EmptyMap
    /\ to_keep = {}
    /\ worklist = <<>>
    /\ to_delete = {}
    /\ runs = <<>>
    /\ pops = 0
    /\ pushes = EmptyMap

\* No call of resolve_symlinks.
SymIdle ==
    /\ rs_pc = "idle"
    /\ fs = EmptyMap
    /\ base_dir = <<>>
    /\ path = <<>>
    /\ paths_to_keep = <<>>
    /\ current_path = <<>>
    /\ hops = 0
    /\ result = "none"

\* No run of read_config on its own.
CfgIdle ==
    /\ cfg_pc = "idle"
    /\ cfg_lines = <<>>
    /\ filtered_lines = <<>>
    /\ cfg_result = "none"

\* No run of cleanup_firmware.
FwIdle ==
    /\ fw_pc = "idle"
    /\ fw_tree = EmptyMap
    /\ fw_before = EmptyMap
    /\ listing = <<>>
    /\ kernel_modules = <<>>
    /\ firmware = EmptyMap
    /\ fw_delete = FALSE
    /\ required = {}
    /\ required_fw = {}
    /\ unused_size = 0
    /\ walk = <<>>
    /\ dirs_to_check = <<>>
    /\ fw_result = "none"

Values(map) == {map[n] : n \in DOMAIN map}

ModuleFiles(files) == SelectSeq(files, IsModuleFile)

(***************************************************************************)
(* driver.rs: cleanup_drivers.                                             *)
(***************************************************************************)
\* HashMap::insert: a later driver of the same name replaces the earlier one.
MapInsert(map, driver) ==
    [n \in DOMAIN map \cup {driver.name} |->
        IF n = driver.name THEN driver ELSE map[n]]

\* Lines 59-73: the drivers found in walk order.
RECURSIVE ScanLoop(_, _, _)
ScanLoop(order, answers, map) ==
    IF order = <<>> THEN map
    ELSE ScanLoop(Tail(order), answers,
                  MapInsert(map, from_file(Head(order), answers[Head(order)])))

AnyMatch(res, text) == \E i \in 1..Len(res) : is_match(res[i], text)

\* Seeded with the two tests in the other order: a keep rule wins.
Seeded_KeepFirst(driver, keep_re, delete_re) ==
    LET kernel_path == StripPrefix(driver.path, KernelDir)
    IN  IF AnyMatch(keep_re, kernel_path) THEN TRUE
        ELSE FALSE

\* Seeded with a driver that no rule matches kept.
Seeded_DefaultKeep(driver, keep_re, delete_re) ==
    LET kernel_path == StripPrefix(driver.path, KernelDir)
    IN  IF AnyMatch(delete_re, kernel_path) THEN FALSE
        ELSE TRUE

\* Lines 78-86: whether the seeding loop inserts the driver into to_keep.
Seeded(driver, keep_re, delete_re) ==
    LET kernel_path == StripPrefix(driver.path, KernelDir)
    IN  IF AnyMatch(delete_re, kernel_path) THEN FALSE
        ELSE AnyMatch(keep_re, kernel_path)

\* Lines 77-87: the seeding loop.
SeedLoop(map, keep_re, delete_re) ==
    {d \in Values(map) : Seeded(d, keep_re, delete_re)}

\* DepsLoop with the result of HashSet::insert ignored: the dependency is
\* pushed whether or not it was already kept.
RECURSIVE DepsLoop_PushAlways(_, _, _, _)
DepsLoop_PushAlways(deps, i, map, st) ==
    IF i > Len(deps) THEN st
    ELSE IF deps[i] \in DOMAIN map
         THEN DepsLoop_PushAlways(deps, i + 1, map,
                       [keep |-> st.keep \cup {map[deps[i]]},
                        work |-> Append(st.work, map[deps[i]])])
    ELSE DepsLoop_PushAlways(deps, i + 1, map, st)

\* DepsLoop leaving the loop at the first name with no inventory entry.
RECURSIVE DepsLoop_StopAtMissing(_, _, _, _)
DepsLoop_StopAtMissing(deps, i, map, st) ==
    IF i > Len(deps) \/ deps[i] \notin DOMAIN map THEN st
    ELSE IF map[deps[i]] \notin st.keep
         THEN DepsLoop_StopAtMissing(deps, i + 1, map,
                       [keep |-> st.keep \cup {map[deps[i]]},
                        work |-> Append(st.work, map[deps[i]])])
    ELSE DepsLoop_StopAtMissing(deps, i + 1, map, st)

\* DepsLoop keeping a new dependency without pushing it on the worklist.
RECURSIVE DepsLoop_NoPush(_, _, _, _)
DepsLoop_NoPush(deps, i, map, st) ==
    IF i > Len(deps) THEN st
    ELSE IF deps[i] \in DOMAIN map /\ map[deps[i]] \notin st.keep
         THEN DepsLoop_NoPush(deps, i + 1, map,
                       [keep |-> st.keep \cup {map[deps[i]]},
                        work |-> st.work])
    ELSE DepsLoop_NoPush(deps, i + 1, map, st)

\* DepsLoop with a keep set that a newly met dependency replaces.
RECURSIVE DepsLoop_KeepLatest(_, _, _, _)
DepsLoop_KeepLatest(deps, i, map, st) ==
    IF i > Len(deps) THEN st
    ELSE IF deps[i] \in DOMAIN map /\ map[deps[i]] \notin st.keep
         THEN DepsLoop_KeepLatest(deps, i + 1, map,
                       [keep |-> {map[deps[i]]},
                        work |-> Append(st.work, map[deps[i]])])
    ELSE DepsLoop_KeepLatest(deps, i + 1, map, st)

\* DepsLoop keeping a new dependency only while no other driver waits on
\* the worklist: what is kept then depends on the processing order.
RECURSIVE DepsLoop_OnlyWhenLast(_, _, _, _)
DepsLoop_OnlyWhenLast(deps, i, map, st) ==
    IF i > Len(deps) THEN st
    ELSE IF deps[i] \in DOMAIN map /\ map[deps[i]] \notin st.keep
            /\ st.work = <<>>
         THEN DepsLoop_OnlyWhenLast(deps, i + 1, map,
                       [keep |-> st.keep \cup {map[deps[i]]},
                        work |-> Append(st.work, map[deps[i]])])
    ELSE DepsLoop_OnlyWhenLast(deps, i + 1, map, st)

\* DepsLoop keeping, for a name with no inventory entry, a driver of that
\* name made up on the spot.
RECURSIVE DepsLoop_KeepUnknown(_, _, _, _)
DepsLoop_KeepUnknown(deps, i, map, st) ==
    IF i > Len(deps) THEN st
    ELSE IF deps[i] \in DOMAIN map /\ map[deps[i]] \notin st.keep
         THEN DepsLoop_KeepUnknown(deps, i + 1, map,
                       [keep |-> st.keep \cup {map[deps[i]]},
                        work |-> Append(st.work, map[deps[i]])])
    ELSE IF deps[i] \notin DOMAIN map
         THEN DepsLoop_KeepUnknown(deps, i + 1, map,
                       [keep |-> st.keep \cup
                                   {[name |-> deps[i], path |-> <<>>,
                                     deps |-> <<>>]},
                        work |-> st.work])
    ELSE DepsLoop_KeepUnknown(deps, i + 1, map, st)

\* Lines 92-101: the dependencies of a popped driver, from the i-th on;
\* st holds to_keep and the worklist.
RECURSIVE DepsLoop(_, _, _, _)
DepsLoop(deps, i, map, st) ==
    IF i > Len(deps) THEN st
    ELSE IF deps[i] \in DOMAIN map /\ map[deps[i]] \notin st.keep
         THEN DepsLoop(deps, i + 1, map,
                       [keep |-> st.keep \cup {map[deps[i]]},
                        work |-> Append(st.work, map[deps[i]])])
    ELSE DepsLoop(deps, i + 1, map, st)

\* ToDelete from the seed alone, the dependencies forgotten.
ToDelete_SeedOnly(map, keep) ==
    {d \in Values(map) : ~Seeded(d, to_keep_re, to_delete_re)}

\* Lines 104-106.
ToDelete(map, keep) == {d \in Values(map) : d \notin keep}

Init ==
    /\ pc = "start"
    /\ disk \in DiskLayouts
    /\ modinfo \in
         {DependsAnswers(Range(ModuleFiles(disk)), entries) :
            entries \in KSubsets({e \in DependsEntries : e[1] \in Range(disk)},
                                 MaxEdges)}
    /\ config \in
         {<<RuleText(picked, 1)>> :
            picked \in KSubsets(1..Len(RuleLines), MaxRules)}
    /\ arch = X86_64
    /\ delete \in BOOLEAN
    /\ to_keep_re = <<>>
    /\ to_delete_re = <<>>
    /\ driver_map = EmptyMap
    /\ to_keep = {}
    /\ worklist = <<>>
    /\ to_delete = {}
    /\ runs = <<>>
    /\ pops = 0
    /\ pushes = EmptyMap
    /\ SymIdle
    /\ FwIdle
    /\ CfgIdle

\* Lines 55-73: the rules are read and the kernel directory is walked.
Scan ==
    /\ pc = "start"
    /\ LET rules == read_config(config, arch)
       IN  /\ to_keep_re' = rules.to_keep
           /\ to_delete_re' = rules.to_delete
    /\ driver_map' = ScanLoop(ModuleFiles(disk), modinfo, EmptyMap)
    /\ pc' = "seed"
    /\ UNCHANGED <<disk, modinfo, config, arch, delete, to_keep, worklist,
                   to_delete, runs, pops, pushes,
                   symVars, fwVars, cfgVars>>

\* Lines 75-90: the seeding loop, and the worklist made from the seed in the
\* iteration order of the hash set.
Seed ==
    /\ pc = "seed"
    /\ to_keep' = SeedLoop(driver_map, to_keep_re, to_delete_re)
    /\ worklist' \in Perms(to_keep')
    /\ pops' = 0
    /\ pushes' = [n \in DOMAIN driver_map |->
                     IF driver_map[n] \in to_keep' THEN 1 ELSE 0]
    /\ pc' = "closure"
    /\ UNCHANGED <<disk, modinfo, config, arch, delete, to_keep_re,
                   to_delete_re, driver_map, to_delete, runs,
                   symVars, fwVars, cfgVars>>

\* How often the iteration that turned the worklist before into the
\* worklist after pushed the driver d: the last driver of before was popped
\* and what after holds beyond the rest of before was pushed.
Pushed(before, after, d) ==
    Cardinality({i \in Len(before)..Len(after) : after[i] = d})

\* Lines 91-102: one iteration of the while loop.
ClosureStep ==
    /\ pc = "closure"
    /\ worklist # <<>>
    /\ pops < MaxPops
    /\ LET driver == worklist[Len(worklist)]
           st == DepsLoop(driver.deps, 1, driver_map,
                          [keep |-> to_keep,
                           work |-> SubSeq(worklist, 1, Len(worklist) - 1)])
       IN  /\ to_keep' = st.keep
           /\ worklist' = st.work
           /\ pushes' = [n \in DOMAIN driver_map |->
                            pushes[n] + Pushed(worklist, st.work, driver_map[n])]
    /\ pops' = pops + 1
    /\ UNCHANGED <<pc, disk, modinfo, config, arch, delete, to_keep_re,
                   to_delete_re, driver_map, to_delete, runs,
                   symVars, fwVars, cfgVars>>

\* Lines 104-109: the loop has ended; the deletion list is computed.
Plan ==
    /\ pc = "closure"
    /\ worklist = <<>>
    /\ to_delete' = ToDelete(driver_map, to_keep)
    /\ pc' = "delete"
    /\ UNCHANGED <<disk, modinfo, config, arch, delete, to_keep_re,
                   to_delete_re, driver_map, to_keep, worklist, runs, pops,
                   pushes,
                   symVars, fwVars, cfgVars>>

\* Delete with the delete argument not looked at.
Delete_Always ==
    /\ pc = "delete"
    /\ disk' = LET Left(f) == f \notin {d.path : d \in to_delete}
               IN  SelectSeq(disk, Left)
    /\ pc' = "done"
    /\ UNCHANGED <<modinfo, config, arch, delete, to_keep_re, to_delete_re,
                   driver_map, to_keep, worklist, to_delete, runs, pops,
                   pushes,
                   symVars, fwVars, cfgVars>>

\* Lines 111-118: with delete, every file of the deletion list is removed.
Delete ==
    /\ pc = "delete"
    /\ disk' = IF delete
               THEN LET Left(f) == f \notin {d.path : d \in to_delete}
                    IN  SelectSeq(disk, Left)
               ELSE disk
    /\ pc' = "done"
    /\ UNCHANGED <<modinfo, config, arch, delete, to_keep_re, to_delete_re,
                   driver_map, to_keep, worklist, to_delete, runs, pops,
                   pushes,
                   symVars, fwVars, cfgVars>>

Next == Scan \/ Seed \/ ClosureStep \/ Plan \/ Delete

Spec == Init /\ [][Next]_vars

\* The closure run three times on one inventory: from the seed, from the
\* seed again, and from the keep set the first run ended with.  runs holds
\* the keep set each finished run ended with.
Rerun ==
    /\ pc = "closure"
    /\ worklist = <<>>
    /\ runs' = Append(runs, to_keep)
    /\ to_keep' = IF Len(runs) = 0
                  THEN SeedLoop(driver_map, to_keep_re, to_delete_re)
                  ELSE runs'[1]
    /\ worklist' \in IF Len(runs) < 2 THEN Perms(to_keep') ELSE {<<>>}
    /\ pops' = 0
    /\ pushes' = [n \in DOMAIN driver_map |->
                     IF Len(runs) < 2 /\ driver_map[n] \in to_keep'
                     THEN 1 ELSE 0]
    /\ pc' = IF Len(runs) < 2 THEN "closure" ELSE "done"
    /\ UNCHANGED <<disk, modinfo, config, arch, delete, to_keep_re,
                   to_delete_re, driver_map, to_delete,
                   symVars, fwVars, cfgVars>>

NextClosureTwice == Scan \/ Seed \/ ClosureStep \/ Rerun

SpecClosureTwice == Init /\ [][NextClosureTwice]_vars

\* The while loop of lines 91-102 is sequential code with nothing to wait
\* for: while the worklist holds a driver the next iteration runs, and when
\* it is empty the loop is left.
FairSpec == Spec /\ WF_vars(ClosureStep) /\ WF_vars(Plan)


(***************************************************************************)
(* Properties of cleanup_drivers.                                          *)
(***************************************************************************)
Name(c) == <<c>>

RelPath(d) == StripPrefix(d.path, KernelDir)

DeleteMatched(d) ==
    \E i \in 1..Len(to_delete_re) : is_match(to_delete_re[i], RelPath(d))

KeepMatched(d) ==
    \E i \in 1..Len(to_keep_re) : is_match(to_keep_re[i], RelPath(d))

\* The inventory drivers named by the dependencies of the drivers of S.
DepsOf(S) ==
    {driver_map[n] : n \in UNION {Range(d.deps) : d \in S} \cap DOMAIN driver_map}

\* S with every driver reachable from it along inventory-present names.
RECURSIVE Reachable(_)
Reachable(S) ==
    IF DepsOf(S) \subseteq S THEN S ELSE Reachable(S \cup DepsOf(S))

LoopEnded == pc \in {"delete", "done"}

\* C1: when the worklist loop has ended, every driver reachable from a kept
\* driver along dependency names present in the inventory is kept; a name
\* with no inventory entry is skipped and the other names still count.
C1_Closure == LoopEnded => Reachable(to_keep) \subseteq to_keep

\* a is seeded and lists a name of nothing, then b: b is kept with it.
C1_Witness ==
    /\ pc = "done"
    /\ \E a \in to_keep :
         /\ a.deps = <<Name("z"), Name("b")>>
         /\ KeepMatched(a)
         /\ Name("b") \in DOMAIN driver_map
         /\ ~KeepMatched(driver_map[Name("b")])
         /\ driver_map[Name("b")] \in to_keep

\* C2 as stated: a driver matched by a delete rule is never in the final keep
\* set and is always in the deletion list.
C2_DeleteRuleExcludes ==
    LoopEnded =>
        \A d \in Values(driver_map) :
            DeleteMatched(d) => d \notin to_keep /\ d \in to_delete

\* C2 amended: a driver matched by a delete rule is kept only when it is
\* reachable, along inventory-present dependency names, from a kept driver
\* that no delete rule matches; whether a keep rule matches it changes
\* nothing.
C2_DeleteRuleExcludesSeed ==
    pc \in {"closure", "delete", "done"} =>
        \A d \in to_keep :
            DeleteMatched(d) =>
                d \in Reachable({k \in to_keep : ~DeleteMatched(k)})

\* A driver matched by a keep rule and by a delete rule ends in the deletion
\* list.
C2_Witness ==
    /\ pc = "done"
    /\ \E d \in Values(driver_map) :
         DeleteMatched(d) /\ KeepMatched(d) /\ d \notin to_keep /\ d \in to_delete

\* C3: the seeding loop leaves in to_keep exactly the inventory drivers
\* matched by no delete rule and by at least one keep rule.
C3_SeedExact ==
    [][pc = "seed" /\ pc' = "closure" =>
         to_keep' = {d \in Values(driver_map) :
                       ~DeleteMatched(d) /\ KeepMatched(d)}]_vars

\* After seeding: one driver seeded, one matched by both kinds of rule and
\* not seeded, one matched by no rule and not seeded.
C3_Witness ==
    /\ pc = "closure"
    /\ Len(worklist) = Cardinality(to_keep)
    /\ \E d \in to_keep : KeepMatched(d)
    /\ \E d \in Values(driver_map) :
         DeleteMatched(d) /\ KeepMatched(d) /\ d \notin to_keep
    /\ \E d \in Values(driver_map) :
         ~DeleteMatched(d) /\ ~KeepMatched(d) /\ d \notin to_keep

\* C4: the deletion list and the keep set are disjoint and together are the
\* whole inventory.
C4_Partition ==
    LoopEnded =>
        /\ to_delete \cap to_keep = {}
        /\ to_delete \cup to_keep = Values(driver_map)

\* Both parts are non-empty and a driver is kept as a dependency only.
C4_Witness ==
    /\ pc = "done"
    /\ to_delete # {}
    /\ \E d \in to_keep : ~KeepMatched(d)


\* a and b depend on each other and only a is seeded.
CycleAB ==
    /\ {Name("a"), Name("b")} \subseteq DOMAIN driver_map
    /\ driver_map[Name("a")].deps = <<Name("b")>>
    /\ driver_map[Name("b")].deps = <<Name("a")>>
    /\ SeedLoop(driver_map, to_keep_re, to_delete_re) = {driver_map[Name("a")]}

\* C5: the closure loop ends on every inventory, cycles and self-dependencies
\* included, and on the cycle a <-> b with only a seeded it ends with a and b
\* kept, each once.
C5_Terminates ==
    /\ (pc = "closure") ~> (pc = "delete" /\ worklist = <<>>)
    /\ [](pc = "done" /\ CycleAB =>
            /\ to_keep = {driver_map[Name("a")], driver_map[Name("b")]}
            /\ Cardinality(to_keep) = 2)

C5_Witness == pc = "done" /\ CycleAB

\* A run ends on an inventory with a driver that depends on itself.
C5_WitnessSelf ==
    /\ pc = "done"
    /\ \E d \in to_keep : d.name \in Range(d.deps)

\* C6: the closure run again on the same seed ends with the same keep set,
\* and run on the keep set it ended with adds nothing.
C6_Idempotent ==
    /\ Len(runs) >= 2 => runs[2] = runs[1] /\ to_keep = runs[1]
    /\ Len(runs) >= 3 => runs[3] = runs[1]

\* Three runs have ended and the first one added a driver to its seed.
C6_Witness ==
    /\ Len(runs) = 3
    /\ runs[1] # SeedLoop(driver_map, to_keep_re, to_delete_re)

\* The inventory a (depends on b), b (depends on c), c, d and the single
\* rule a.ko.
ChainScenario ==
    /\ modinfo = DependsAnswers(
                    {InKernelDir(f) : f \in {A_KO, B_KO, C_KO, D_KO}},
                    {<<InKernelDir(A_KO), "b">>, <<InKernelDir(B_KO), "c">>})
    /\ config = <<A_KO \o <<"\n">>>>

MaxHops == 10

Rel(comps) == [abs |-> FALSE, comps |-> comps]
Abs(comps) == [abs |-> TRUE, comps |-> comps]

RegularFile == [kind |-> "file", target |-> Rel(<<>>)]
Directory == [kind |-> "dir", target |-> Rel(<<>>)]
SymLink(target) == [kind |-> "link", target |-> target]

\* Path::parent.
Parent(p) == SubSeq(p, 1, Len(p) - 1)

\* Path::join: an absolute target replaces the directory.
Join(dir, target) == IF target.abs THEN target.comps ELSE dir \o target.comps

\* PathClean::clean of an absolute path: "." is dropped and ".." drops the
\* component before it (nothing at the root).
RECURSIVE CleanLoop(_, _)
CleanLoop(todo, done) ==
    IF todo = <<>> THEN done
    ELSE IF Head(todo) = "." THEN CleanLoop(Tail(todo), done)
    ELSE IF Head(todo) = ".."
         THEN CleanLoop(Tail(todo),
                        IF done = <<>> THEN done ELSE Parent(done))
    ELSE CleanLoop(Tail(todo), Append(done, Head(todo)))

Clean(p) == CleanLoop(p, <<>>)

\* Path::starts_with: base is a prefix of p, component by component.
PathStartsWith(p, base) ==
    /\ Len(base) <= Len(p)
    /\ SubSeq(p, 1, Len(base)) = base

\* Path::exists taken as the path being there, links not followed.
Exists_NoFollow(tree, p) == p \in DOMAIN tree

\* The path resolution of the kernel, as fs::metadata uses it: the
\* components of todo are walked from the directory dir; a symbolic link met
\* on the way is replaced by its target, so that ".." after a link to a
\* directory is the parent of that directory and not of the link.  It fails
\* on a missing component, on a component below a regular file, and with
\* more than 40 links followed (ELOOP), which is how a cycle of links ends.
\* n is the number of links that may still be followed; at is the path
\* reached, free of links.
RECURSIVE Lookup(_, _, _, _)
Lookup(tree, dir, todo, n) ==
    IF todo = <<>> THEN [ok |-> TRUE, at |-> dir]
    ELSE LET c == Head(todo)
             rest == Tail(todo)
             q == Append(dir, c)
         IN  IF c = "." THEN Lookup(tree, dir, rest, n)
             ELSE IF c = ".."
             THEN Lookup(tree, IF dir = <<>> THEN dir ELSE Parent(dir), rest, n)
             ELSE IF q \notin DOMAIN tree THEN [ok |-> FALSE, at |-> q]
             ELSE IF tree[q].kind = "link"
             THEN IF n = 0 THEN [ok |-> FALSE, at |-> q]
                  ELSE Lookup(tree,
                              IF tree[q].target.abs THEN <<>> ELSE dir,
                              tree[q].target.comps \o rest, n - 1)
             ELSE IF tree[q].kind = "file" /\ rest # <<>>
             THEN [ok |-> FALSE, at |-> q]
             ELSE Lookup(tree, q, rest, n)

\* Path::exists: fs::metadata succeeds, which follows symbolic links to the
\* end.
Exists(tree, p) == Lookup(tree, <<>>, p, 40).ok

\* LoopBody keeping only the starting path and the latest target.
LoopBody_LatestOnly(tree, base, st) ==
    IF st.current \notin DOMAIN tree
    THEN [st EXCEPT !.status = "err"]
    ELSE IF tree[st.current].kind # "link"
    THEN [st EXCEPT !.status = "ok"]
    ELSE LET target == tree[st.current].target
             parent_dir == Parent(st.current)
             next == Clean(Join(parent_dir, target))
         IN  IF ~PathStartsWith(next, base)
             THEN [st EXCEPT !.current = next, !.status = "ok"]
             ELSE IF ~Lookup(tree, <<>>, next, 40).ok
             THEN [st EXCEPT !.current = next, !.status = "ok"]
             ELSE [st EXCEPT !.current = next,
                             !.paths = <<Head(st.paths), next>>]

\* LoopBody without the test of line 107.
LoopBody_NoContainment(tree, base, st) ==
    IF st.current \notin DOMAIN tree
    THEN [st EXCEPT !.status = "err"]
    ELSE IF tree[st.current].kind # "link"
    THEN [st EXCEPT !.status = "ok"]
    ELSE LET target == tree[st.current].target
             parent_dir == Parent(st.current)
             next == Clean(Join(parent_dir, target))
         IN  IF ~Lookup(tree, <<>>, next, 40).ok
             THEN [st EXCEPT !.current = next, !.status = "ok"]
             ELSE [st EXCEPT !.current = next,
                             !.paths = Append(st.paths, next)]

\* Lines 95-126: one iteration of the for loop.  status is "loop" when the
\* loop goes on, "ok" after the break or a return of Ok, "err" when
\* symlink_metadata fails.
LoopBody(tree, base, st) ==
    IF st.current \notin DOMAIN tree
    THEN [st EXCEPT !.status = "err"]
    ELSE IF tree[st.current].kind # "link"
    THEN [st EXCEPT !.status = "ok"]
    ELSE LET target == tree[st.current].target
             parent_dir == Parent(st.current)
             next == Clean(Join(parent_dir, target))
         IN  IF ~PathStartsWith(next, base)
             THEN [st EXCEPT !.current = next, !.status = "ok"]
             ELSE IF ~Exists(tree, next)
             THEN [st EXCEPT !.current = next, !.status = "ok"]
             ELSE [st EXCEPT !.current = next,
                             !.paths = Append(st.paths, next)]

(***************************************************************************)
(* The file systems of the model: under the base directory /fw a regular   *)
(* file f, a directory d holding a regular file g and a link k to ../f,    *)
(* and links l1 .. ln where l1 points to f and each other link to the one  *)
(* before it, except for at most one link, which points elsewhere; outside *)
(* the base directory a regular file /o/f.                                 *)
(***************************************************************************)
FW == <<"fw">>

LinkNames ==
    <<"l1", "l2", "l3", "l4", "l5", "l6", "l7", "l8", "l9", "l10", "l11",
      "l12", "l13", "l14">>

LinkPath(i) == <<"fw", LinkNames[i]>>

ChainTarget(i) == IF i = 1 THEN Rel(<<"f">>) ELSE Rel(<<LinkNames[i - 1]>>)

OtherTargets(n) ==
    {Abs(<<"fw", "f">>), Abs(<<"o", "f">>),
     Rel(<<"missing">>), Rel(<<"..", "o", "f">>), Rel(<<"..", "o", "missing">>),
     Rel(<<"d">>), Rel(<<"d", "g">>), Rel(<<"d", "k">>),
     Rel(<<"d", "..", "f">>), Rel(<<".", "f">>)}
        \cup {Rel(<<LinkNames[j]>>) : j \in 1..n}

FixedTree ==
    (<<"fw">> :> Directory) @@ (<<"fw", "f">> :> RegularFile)
        @@ (<<"fw", "d">> :> Directory) @@ (<<"fw", "d", "g">> :> RegularFile)
        @@ (<<"fw", "d", "k">> :> SymLink(Rel(<<"..", "f">>)))
        @@ (<<"o">> :> Directory) @@ (<<"o", "f">> :> RegularFile)

\* The tree with n links where link s (none when s = 0) points to t.
Tree(n, s, t) ==
    [i \in {LinkPath(j) : j \in 1..n} |->
        LET j == CHOOSE k \in 1..n : LinkPath(k) = i
        IN  SymLink(IF j = s THEN t ELSE ChainTarget(j))] @@ FixedTree

\* Trees with a link to a directory: dl points to the directory d/e, and the
\* link x to dl/../x, which clean() turns into x itself and the kernel
\* resolves to d/x; y points to x.  d/x is a regular file or is missing.
DirLinkTrees ==
    LET links == (<<"fw", "d", "e">> :> Directory)
                    @@ (<<"fw", "dl">> :> SymLink(Rel(<<"d", "e">>)))
                    @@ (<<"fw", "x">> :> SymLink(Rel(<<"dl", "..", "x">>)))
                    @@ (<<"fw", "y">> :> SymLink(Rel(<<"x">>)))
                    @@ FixedTree
    IN  {links, (<<"fw", "d", "x">> :> RegularFile) @@ links}

Trees ==
    {Tree(n, 0, Rel(<<>>)) : n \in 0..MaxChain}
        \cup UNION {{Tree(n, s, t) : s \in 1..n, t \in OtherTargets(n)} :
                      n \in 1..MaxChain}
        \cup DirLinkTrees

\* The paths resolve_symlinks is called on: the last link, the file, the
\* link in the sub-directory, the directory, and a path of nothing.
StartPaths(tree) ==
    LET n == Cardinality({j \in 1..Len(LinkNames) : LinkPath(j) \in DOMAIN tree})
    IN  {<<"fw", "f">>, <<"fw", "d", "k">>, <<"fw", "d">>, <<"fw", "missing">>}
            \cup {LinkPath(j) : j \in {n} \ {0}}
            \cup ({<<"fw", "x">>, <<"fw", "y">>, <<"fw", "dl">>} \cap DOMAIN tree)

\* Lines 90-91.
InitSymlinks ==
    /\ DrvIdle
    /\ FwIdle
    /\ CfgIdle
    /\ rs_pc = "loop"
    /\ fs \in Trees
    /\ base_dir = FW
    /\ path \in StartPaths(fs)
    /\ paths_to_keep = <<path>>
    /\ current_path = path
    /\ hops = 0
    /\ result = "none"

\* Hop with a loop that has no bound on its iterations.
Hop_Unbounded ==
    /\ rs_pc = "loop"
    /\ LET st == LoopBody(fs, base_dir,
                          [paths |-> paths_to_keep, current |-> current_path,
                           status |-> "loop"])
       IN  /\ paths_to_keep' = st.paths
           /\ current_path' = st.current
           /\ rs_pc' = IF st.status = "loop" THEN "loop" ELSE "done"
           /\ result' = IF st.status = "loop" THEN "none"
                        ELSE IF st.status = "ok" THEN "Ok" ELSE "Err"
    /\ hops' = hops + 1
    /\ UNCHANGED <<fs, base_dir, path, drvVars, fwVars, cfgVars>>

\* Lines 94-127: one iteration of the for loop.
Hop ==
    /\ rs_pc = "loop"
    /\ hops < MaxHops
    /\ LET st == LoopBody(fs, base_dir,
                          [paths |-> paths_to_keep, current |-> current_path,
                           status |-> "loop"])
       IN  /\ paths_to_keep' = st.paths
           /\ current_path' = st.current
           /\ rs_pc' = IF st.status = "loop" THEN "loop" ELSE "done"
           /\ result' = IF st.status = "loop" THEN "none"
                        ELSE IF st.status = "ok" THEN "Ok" ELSE "Err"
    /\ hops' = hops + 1
    /\ UNCHANGED <<fs, base_dir, path, drvVars, fwVars, cfgVars>>

\* Line 129: the for loop has run MaxHops times.
LoopEnd ==
    /\ rs_pc = "loop"
    /\ hops = MaxHops
    /\ rs_pc' = "done"
    /\ result' = "Ok"
    /\ UNCHANGED <<fs, base_dir, path, paths_to_keep, current_path, hops,
                   drvVars, fwVars, cfgVars>>

NextSymlinks == Hop \/ LoopEnd

SpecSymlinks == InitSymlinks /\ [][NextSymlinks]_vars


(***************************************************************************)
(* Properties of resolve_symlinks.                                         *)
(***************************************************************************)
\* Where the link p points (line 104).
NextOf(p) == Clean(Join(Parent(p), fs[p].target))

IsLink(p) == p \in DOMAIN fs /\ fs[p].kind = "link"

\* p and the paths met by following at most k links from it.
RECURSIVE Chain(_, _)
Chain(p, k) ==
    IF k = 0 \/ ~IsLink(p) THEN <<p>> ELSE <<p>> \o Chain(NextOf(p), k - 1)

\* The chain from p is made of links inside the base directory and ends at a
\* regular file there.
Straight(p) ==
    LET c == Chain(p, MaxChain + 2)
    IN  /\ \A i \in 1..Len(c) :
             c[i] \in DOMAIN fs /\ PathStartsWith(c[i], base_dir)
        /\ fs[c[Len(c)]].kind = "file"

\* C8: on a straight chain of at most 10 links the result is the starting
\* link, every link after it and the file, in hop order; on a path that is
\* no link it is that path alone.
C8_StraightChain ==
    rs_pc = "done" =>
        /\ Straight(path) /\ Len(Chain(path, MaxChain + 2)) <= 11 =>
              result = "Ok" /\ paths_to_keep = Chain(path, MaxChain + 2)
        /\ path \in DOMAIN fs /\ ~IsLink(path) =>
              result = "Ok" /\ paths_to_keep = <<path>>

\* A straight chain of 10 links has been resolved.
C8_Witness ==
    /\ rs_pc = "done"
    /\ Straight(path)
    /\ Len(Chain(path, MaxChain + 2)) = 11
    /\ Len(paths_to_keep) = 11

\* l3 -> l2 -> l1 -> f has been resolved.
C8_WitnessFour ==
    /\ rs_pc = "done"
    /\ paths_to_keep = <<LinkPath(3), LinkPath(2), LinkPath(1), <<"fw", "f">>>>

\* Following one link or more from p leads back to p, for clean() and for
\* the kernel alike: the links lead nowhere.
InCycle(p) ==
    /\ \E k \in 1..(MaxChain + 1) :
          LET c == Chain(p, k) IN Len(c) = k + 1 /\ c[k + 1] = p
    /\ ~Lookup(fs, <<>>, p, 40).ok

\* p is a link to nothing.
Broken(p) == IsLink(p) /\ NextOf(p) \notin DOMAIN fs

\* C9: started on a link of a cycle, or on a link whose target does not
\* exist, resolve_symlinks returns without error the starting path alone.
C9_CycleOrBroken ==
    rs_pc = "done" /\ (InCycle(path) \/ Broken(path)) =>
        result = "Ok" /\ paths_to_keep = <<path>>

\* Started on l2 of the cycle l2 -> l1 -> l2.
C9_Witness ==
    /\ rs_pc = "done"
    /\ path = LinkPath(2)
    /\ NextOf(path) = LinkPath(1)
    /\ IsLink(LinkPath(1))
    /\ NextOf(LinkPath(1)) = path

C9_WitnessBroken ==
    /\ rs_pc = "done"
    /\ Broken(path)
    /\ PathStartsWith(NextOf(path), base_dir)

\* C10: every path of the result after the first lies inside the base
\* directory; an iteration whose link points outside it ends the walk with
\* the paths gathered so far, the starting path among them, and no error.
C10_Containment ==
    /\ [](\A i \in 2..Len(paths_to_keep) :
             PathStartsWith(paths_to_keep[i], base_dir))
    /\ [][/\ rs_pc = "loop" /\ hops < 10
          /\ IsLink(current_path)
          /\ ~PathStartsWith(NextOf(current_path), base_dir)
          => /\ rs_pc' = "done"
             /\ result' = "Ok"
             /\ paths_to_keep' = paths_to_keep
             /\ paths_to_keep'[1] = path]_vars

\* The walk has gathered links and ended at a link that points to a file
\* outside the base directory.
C10_Witness ==
    /\ rs_pc = "done"
    /\ Len(paths_to_keep) >= 3
    /\ ~PathStartsWith(current_path, base_dir)
    /\ current_path \in DOMAIN fs
    /\ NextOf(paths_to_keep[Len(paths_to_keep)]) = current_path

\* C11: on an unbroken chain of links inside the base directory, of any
\* length, the result holds the file the chain ends at.
C11_TerminalIncluded ==
    rs_pc = "done" /\ Straight(path) =>
        LET c == Chain(path, MaxChain + 2)
        IN  result = "Ok" /\ c[Len(c)] \in Range(paths_to_keep)

\* A chain of 11 links has been walked: the result is the first 11 links,
\* without the file.
C11_ElevenLinks ==
    /\ rs_pc = "done"
    /\ Straight(path)
    /\ Len(Chain(path, MaxChain + 2)) = 12
    /\ paths_to_keep = SubSeq(Chain(path, MaxChain + 2), 1, 11)

(***************************************************************************)
(* Firmware cleanup (firmware.rs).  The firmware tree is a function from   *)
(* paths, sequences of names, to nodes, as for resolve_symlinks; a regular *)
(* file has a size in bytes.  The firmware names modinfo prints and the    *)
(* patterns built from them are texts, sequences of characters: Spell      *)
(* gives the characters of every name of the model.                       *)
(***************************************************************************)
\* Maximal number of optional entries of the firmware tree.
MaxExtras == 2

\* Maximal number of firmware names declared by the modules together.
MaxFirmware == 2

FileOfSize(n) == [kind |-> "file", target |-> Rel(<<>>), size |-> n]

Spell ==
    ("fw" :> <<"f", "w">>)
    @@ ("required.bin" :>
           <<"r", "e", "q", "u", "i", "r", "e", "d", ".", "b", "i", "n">>)
    @@ ("required.bin.zst" :>
           <<"r", "e", "q", "u", "i", "r", "e", "d", ".", "b", "i", "n",
           ".", "z", "s", "t">>)
    @@ ("unused.bin" :> <<"u", "n", "u", "s", "e", "d", ".", "b", "i", "n">>)
    @@ ("brcm" :> <<"b", "r", "c", "m">>)
    @@ ("brcmfmac43430-sdio.bin" :>
           <<"b", "r", "c", "m", "f", "m", "a", "c", "4", "3", "4", "3",
           "0", "-", "s", "d", "i", "o", ".", "b", "i", "n">>)
    @@ ("brcmfmac43430-sdio.bin.xz" :>
           <<"b", "r", "c", "m", "f", "m", "a", "c", "4", "3", "4", "3",
           "0", "-", "s", "d", "i", "o", ".", "b", "i", "n", ".", "x",
           "z">>)
    @@ ("brcmfmac43430-sdio.txt" :>
           <<"b", "r", "c", "m", "f", "m", "a", "c", "4", "3", "4", "3",
           "0", "-", "s", "d", "i", "o", ".", "t", "x", "t">>)
    @@ ("valid_link" :> <<"v", "a", "l", "i", "d", "_", "l", "i", "n", "k">>)
    @@ ("dangling_link" :>
           <<"d", "a", "n", "g", "l", "i", "n", "g", "_", "l", "i", "n",
           "k">>)
    @@ ("unused_link" :>
           <<"u", "n", "u", "s", "e", "d", "_", "l", "i", "n", "k">>)
    @@ ("dir_link" :> <<"d", "i", "r", "_", "l", "i", "n", "k">>)
    @@ ("a" :> <<"a">>)
    @@ ("b" :> <<"b">>)
    @@ ("c" :> <<"c">>)
    @@ ("d" :> <<"d">>)
    @@ ("file.txt" :> <<"f", "i", "l", "e", ".", "t", "x", "t">>)
    @@ ("non_existent_file" :>
           <<"n", "o", "n", "_", "e", "x", "i", "s", "t", "e", "n", "t",
           "_", "f", "i", "l", "e">>)

\* The name spelt by the characters cs; a name of no entry when the model
\* has no such name.
NameOf(cs) ==
    IF \E n \in DOMAIN Spell : Spell[n] = cs
    THEN CHOOSE n \in DOMAIN Spell : Spell[n] = cs
    ELSE "?"

\* PathBuf::from(text): the components of an absolute path text; empty
\* components and "." are dropped.
IsComponent(cs) == cs # <<>> /\ cs # <<".">>

RECURSIVE NamesOf(_)
NamesOf(parts) ==
    IF parts = <<>> THEN <<>>
    ELSE <<NameOf(Head(parts))>> \o NamesOf(Tail(parts))

PathFrom(text) == NamesOf(SelectSeq(Split(text, "/"), IsComponent))

\* Path::to_string_lossy of an absolute path.
RECURSIVE PathText(_)
PathText(p) ==
    IF p = <<>> THEN <<>> ELSE <<"/">> \o Spell[Head(p)] \o PathText(Tail(p))

\* fw_dir.join(fw_name) as text (line 42): an absolute name replaces the
\* directory.
JoinText(dir, fw_name) ==
    IF StartsWith(fw_name, <<"/">>) THEN fw_name
    ELSE PathText(dir) \o <<"/">> \o fw_name

\* str::contains('*').
Contains(text, c) == \E i \in 1..Len(text) : text[i] = c

\* fs::metadata: the node at the end of the links from p; NoEntry when p
\* is missing or the links lead to a missing path or back to themselves.
NoEntry == [kind |-> "none", target |-> Rel(<<>>), size |-> 0]

RECURSIVE Metadata(_, _, _)
Metadata(tree, p, seen) ==
    IF p \notin DOMAIN tree \/ p \in seen THEN NoEntry
    ELSE IF tree[p].kind = "link"
         THEN Metadata(tree, Clean(Join(Parent(p), tree[p].target)),
                       seen \cup {p})
    ELSE tree[p]

\* Path::is_file and Path::is_dir, which follow links.
IsFile(tree, p) == Metadata(tree, p, {}).kind = "file"

IsDir(tree, p) == Metadata(tree, p, {}).kind = "dir"

\* Path::is_symlink, which does not.
IsSymlink(tree, p) == p \in DOMAIN tree /\ tree[p].kind = "link"

\* The entries of the directory p.
Children(tree, p) == {c \in DOMAIN tree : c # <<>> /\ Parent(c) = p}

\* WalkDir::new(p): p, then the entries below it, a directory before what
\* it holds and the entries of a directory in the order the file system
\* lists them; links are not followed.
RECURSIVE WalkFrom(_, _, _)
RECURSIVE WalkChildren(_, _, _, _)
WalkFrom(tree, p, order) ==
    <<p>> \o (IF tree[p].kind = "dir"
              THEN WalkChildren(tree, p, order, 1) ELSE <<>>)

WalkChildren(tree, p, order, i) ==
    IF i > Len(order) THEN <<>>
    ELSE (IF Append(p, order[i]) \in DOMAIN tree
          THEN WalkFrom(tree, Append(p, order[i]), order) ELSE <<>>)
             \o WalkChildren(tree, p, order, i + 1)

\* WildMatch with a '*' that takes the rest of the name whatever follows
\* it in the pattern.
RECURSIVE WildMatch_StarToEnd(_, _)
WildMatch_StarToEnd(pat, text) ==
    IF pat = <<>> THEN text = <<>>
    ELSE IF Head(pat) = "*" THEN TRUE
    ELSE /\ text # <<>>
         /\ Head(pat) = "?" \/ Head(pat) = Head(text)
         /\ WildMatch_StarToEnd(Tail(pat), Tail(text))

\* glob::Pattern matched with one name: '*' stands for any run of
\* characters and '?' for any one character.
RECURSIVE WildMatch(_, _)
WildMatch(pat, text) ==
    IF pat = <<>> THEN text = <<>>
    ELSE IF Head(pat) = "*"
         THEN \E k \in 0..Len(text) :
                  WildMatch(Tail(pat), SubSeq(text, k + 1, Len(text)))
    ELSE /\ text # <<>>
         /\ Head(pat) = "?" \/ Head(pat) = Head(text)
         /\ WildMatch(Tail(pat), Tail(text))

IsLiteral(pat) == ~Contains(pat, "*") /\ ~Contains(pat, "?")

\* glob::glob walks the pattern component by component from the root: a
\* component without wildcard is joined to the path, which must then be
\* there (links followed); one with a wildcard is matched with the names
\* the directory lists.
RECURSIVE GlobFrom(_, _, _)
GlobFrom(tree, p, pats) ==
    IF pats = <<>> THEN {p}
    ELSE IF IsLiteral(Head(pats))
         THEN LET next == Append(p, NameOf(Head(pats)))
              IN  IF Exists(tree, next)
                  THEN GlobFrom(tree, next, Tail(pats)) ELSE {}
    ELSE IF IsDir(tree, p)
         THEN UNION {GlobFrom(tree, c, Tail(pats)) :
                        c \in {d \in Children(tree, p) :
                                  WildMatch(Head(pats), Spell[d[Len(d)]])}}
    ELSE {}

Glob(tree, pattern) ==
    GlobFrom(tree, <<>>, SelectSeq(Split(pattern, "/"), IsComponent))

Extensions == <<<<>>, <<".", "x", "z">>, <<".", "z", "s", "t">>>>

\* Lines 38-66; the result is taken as a set, since the caller only adds
\* what is found to a set.
find_firmware_files_from_name(tree, fw_name, fw_dir) ==
    LET pattern == JoinText(fw_dir, fw_name)
    IN  IF ~Contains(fw_name, "*")
        THEN {p \in {PathFrom(pattern \o Extensions[i]) : i \in 1..3} :
                 Exists(tree, p)}
        ELSE UNION {Glob(tree, pattern \o Extensions[i]) : i \in 1..3}

\* Lines 89-130 as a function: the for loop run to its end.
RECURSIVE ResolveLoop(_, _, _, _)
ResolveLoop(tree, base, st, n) ==
    IF n = 0 \/ st.status # "loop" THEN st
    ELSE ResolveLoop(tree, base, LoopBody(tree, base, st), n - 1)

resolve_symlinks(tree, start, base) ==
    ResolveLoop(tree, base,
                [paths |-> <<start>>, current |-> start, status |-> "loop"],
                MaxHops)

(***************************************************************************)
(* The firmware trees of the model: under /fw the files required.bin and   *)
(* unused.bin, the directory brcm with brcmfmac43430-sdio.txt, the         *)
(* directories a, a/b, a/c with a/c/file.txt, and d; and at most MaxExtras *)
(* of the optional entries.                                                *)
(***************************************************************************)
FwBase ==
    (<<"fw">> :> Directory)
        @@ (<<"fw", "required.bin">> :> FileOfSize(13))
        @@ (<<"fw", "unused.bin">> :> FileOfSize(11))
        @@ (<<"fw", "brcm">> :> Directory)
        @@ (<<"fw", "brcm", "brcmfmac43430-sdio.txt">> :> FileOfSize(5))
        @@ (<<"fw", "a">> :> Directory)
        @@ (<<"fw", "a", "b">> :> Directory)
        @@ (<<"fw", "a", "c">> :> Directory)
        @@ (<<"fw", "a", "c", "file.txt">> :> FileOfSize(4))
        @@ (<<"fw", "d">> :> Directory)

FwExtras ==
    {<<<<"fw", "brcm", "brcmfmac43430-sdio.bin">>, FileOfSize(2)>>,
     <<<<"fw", "brcm", "brcmfmac43430-sdio.bin.xz">>, FileOfSize(1)>>,
     <<<<"fw", "required.bin.zst">>, FileOfSize(3)>>,
     <<<<"fw", "valid_link">>, SymLink(Rel(<<"required.bin">>))>>,
     <<<<"fw", "dangling_link">>, SymLink(Rel(<<"non_existent_file">>))>>,
     <<<<"fw", "unused_link">>, SymLink(Rel(<<"unused.bin">>))>>,
     <<<<"fw", "dir_link">>, SymLink(Rel(<<"d">>))>>}

FwTree(extras) ==
    [p \in {e[1] : e \in extras} |->
        (CHOOSE e \in extras : e[1] = p)[2]] @@ FwBase

FwTrees == {FwTree(extras) : extras \in KSubsets(FwExtras, MaxExtras)}

\* The two orders in which the file system of the model lists the names of
\* a directory.
NameOrder ==
    <<"a", "b", "brcm", "brcmfmac43430-sdio.bin", "brcmfmac43430-sdio.bin.xz",
      "brcmfmac43430-sdio.txt", "c", "d", "dangling_link", "dir_link",
      "file.txt", "required.bin", "required.bin.zst", "unused.bin",
      "unused_link", "valid_link">>

Reverse(seq) == [i \in 1..Len(seq) |-> seq[Len(seq) + 1 - i]]

Listings == {NameOrder, Reverse(NameOrder)}

\* What WalkDir meets in the kernel directory.
KernelFiles == <<InKernelDir(A_KO), InKernelDir(M_DEP), InKernelDir(B_KO)>>

\* The firmware names a module of the model may declare.
FirmwareNames ==
    <<Spell["required.bin"],
      Spell["brcm"] \o <<"/", "b", "r", "c", "m", "f", "m", "a", "c", "*",
                         "-", "s", "d", "i", "o", ".", "b", "i", "n">>,
      Spell["valid_link"],
      Spell["unused_link"],
      Spell["a"] \o <<"/">> \o Spell["c"] \o <<"/">> \o Spell["file.txt"],
      <<"*", ".", "b", "i", "n">>,
      <<"*", "_", "l", "i", "n", "k">>>>

\* The "firmware" entries a module of the model may have, as <<file, i>>
\* for the name FirmwareNames[i]; i = 0 stands for a failing modinfo.
FirmwareEntries ==
    {<<InKernelDir(A_KO), i>> : i \in {0, 1, 2, 3, 6}}
        \cup {<<InKernelDir(B_KO), i>> : i \in {0, 1, 4, 5, 7}}

\* join("\n"): the text modinfo prints for a list of names.
RECURSIVE JoinLines(_)
JoinLines(names) ==
    IF names = <<>> THEN <<>>
    ELSE IF Len(names) = 1 THEN Head(names)
    ELSE Head(names) \o <<"\n">> \o JoinLines(Tail(names))

\* The answers of "modinfo -F firmware" given a set of entries.
FirmwareAnswers(files, picked) ==
    [f \in files |->
        IF <<f, 0>> \in picked THEN Err
        ELSE LET Listed(i) == <<f, i>> \in picked
                 indices == SelectSeq(<<1, 2, 3, 4, 5, 6, 7>>, Listed)
             IN  Ok(JoinLines([k \in 1..Len(indices) |->
                                   FirmwareNames[indices[k]]]))]

\* The tree without the entry p.
Without(tree, p) == [q \in DOMAIN tree \ {p} |-> tree[q]]

\* Path::strip_prefix(fw_dir) of a path under fw_dir.
Relative(p, fw_dir) == SubSeq(p, Len(fw_dir) + 1, Len(p))

\* The path at the end of the links from p (p itself when p is no link).
RECURSIVE RealPath(_, _, _)
RealPath(tree, p, seen) ==
    IF p \in DOMAIN tree /\ tree[p].kind = "link" /\ p \notin seen
    THEN RealPath(tree, Clean(Join(Parent(p), tree[p].target)),
                  seen \cup {p})
    ELSE p

\* Lines 77-84: the firmware of one module.  ok is FALSE when modinfo
\* fails (line 77) and when resolve_symlinks does (line 81).
ModuleFirmware(tree, answer, fw_dir) ==
    IF ~answer.ok THEN [ok |-> FALSE, error |-> "Command", paths |-> {}]
    ELSE LET firmware_names == Lines(answer.out)
             firmware_files ==
                 UNION {find_firmware_files_from_name(tree, firmware_names[i],
                                                      fw_dir) :
                           i \in 1..Len(firmware_names)}
             symlinks == {resolve_symlinks(tree, f, fw_dir) :
                             f \in firmware_files}
         IN  IF \E r \in symlinks : r.status = "err"
             THEN [ok |-> FALSE, error |-> "Io", paths |-> {}]
             ELSE [ok |-> TRUE, error |-> "none",
                   paths |-> UNION {Range(r.paths) : r \in symlinks}]

\* Lines 141-153: one entry of the walk of remove_unused_files.
UnusedBody(tree, p, required_paths, del, size) ==
    IF IsFile(tree, p) /\ Relative(p, FW) \notin required_paths
    THEN [tree |-> IF del THEN Without(tree, p) ELSE tree,
          size |-> size + Metadata(tree, p, {}).size]
    ELSE [tree |-> tree, size |-> size]

\* Lines 161-168: one entry of the walk of remove_dangling_symlinks.
DanglingBody(tree, p) ==
    IF IsSymlink(tree, p) /\ Metadata(tree, p, {}).kind = "none"
    THEN Without(tree, p)
    ELSE tree

\* Lines 176-184: the directories under fw_dir, fw_dir among them, the
\* deepest first and those of one depth in the order of the walk.
RECURSIVE ByDepth(_, _)
ByDepth(dirs, depth) ==
    IF depth = 0 THEN <<>>
    ELSE LET AtDepth(p) == Len(p) = depth
         IN  SelectSeq(dirs, AtDepth) \o ByDepth(dirs, depth - 1)

\* DirsToCheck without the sort of line 184: the directories in the order of
\* the walk, each one before what it holds.
DirsToCheck_Unsorted(tree, fw_dir, order) ==
    LET OnDir(p) == IsDir(tree, p)
    IN  SelectSeq(WalkFrom(tree, fw_dir, order), OnDir)

DirsToCheck(tree, fw_dir, order) ==
    LET OnDir(p) == IsDir(tree, p)
        dirs == SelectSeq(WalkFrom(tree, fw_dir, order), OnDir)
        Deepest(k) == \A i \in 1..Len(dirs) : Len(dirs[i]) <= k
    IN  ByDepth(dirs, CHOOSE k \in 1..(Cardinality(DOMAIN tree) + 1) :
                          Deepest(k) /\ \A j \in 1..(k - 1) : ~Deepest(j))

\* EmptyBody without the test on the root of line 188.
EmptyBody_NoRootTest(tree, dir_path, fw_dir) ==
    IF ~IsDir(tree, dir_path) THEN [tree |-> tree, ok |-> FALSE]
    ELSE IF Children(tree, RealPath(tree, dir_path, {})) # {}
    THEN [tree |-> tree, ok |-> TRUE]
    ELSE IF tree[dir_path].kind # "dir" THEN [tree |-> tree, ok |-> FALSE]
    ELSE [tree |-> Without(tree, dir_path), ok |-> TRUE]

\* Lines 188-191: one directory of remove_empty_directories.  read_dir
\* follows a link and fails when the directory is no longer there;
\* remove_dir fails on a link.
EmptyBody(tree, dir_path, fw_dir) ==
    IF dir_path = fw_dir THEN [tree |-> tree, ok |-> TRUE]
    ELSE IF ~IsDir(tree, dir_path) THEN [tree |-> tree, ok |-> FALSE]
    ELSE IF Children(tree, RealPath(tree, dir_path, {})) # {}
    THEN [tree |-> tree, ok |-> TRUE]
    ELSE IF tree[dir_path].kind # "dir" THEN [tree |-> tree, ok |-> FALSE]
    ELSE [tree |-> Without(tree, dir_path), ok |-> TRUE]

\* cleanup_firmware is called (lines 196-205); find_kernel_modules has
\* walked the kernel directory (line 74).
InitFirmware ==
    /\ DrvIdle
    /\ SymIdle
    /\ CfgIdle
    /\ fw_pc = "required"
    /\ fw_tree \in FwTrees
    /\ fw_before = fw_tree
    /\ listing \in Listings
    /\ kernel_modules = ModuleFiles(KernelFiles)
    /\ firmware \in
         {FirmwareAnswers(Range(ModuleFiles(KernelFiles)), picked) :
            picked \in KSubsets(FirmwareEntries, MaxFirmware)}
    /\ fw_delete \in BOOLEAN
    /\ required = {}
    /\ required_fw = {}
    /\ unused_size = 0
    /\ walk = <<>>
    /\ dirs_to_check = <<>>
    /\ fw_result = "none"

\* Lines 76-85: one iteration of the loop over the modules; an error
\* leaves get_required_firmware and cleanup_firmware (lines 77, 81, 205).
RequireStep ==
    /\ fw_pc = "required"
    /\ kernel_modules # <<>>
    /\ LET found == ModuleFirmware(fw_tree, firmware[Head(kernel_modules)], FW)
       IN  IF found.ok
           THEN /\ required' = required \cup found.paths
                /\ kernel_modules' = Tail(kernel_modules)
                /\ UNCHANGED <<fw_pc, fw_result>>
           ELSE /\ fw_pc' = "done"
                /\ fw_result' = found.error
                /\ UNCHANGED <<required, kernel_modules>>
    /\ UNCHANGED <<fw_tree, fw_before, listing, firmware, fw_delete, required_fw,
                   unused_size, walk, dirs_to_check, drvVars, symVars, cfgVars>>

\* Lines 86, 205-210: get_required_firmware returns, the paths are made
\* relative and remove_unused_files starts its walk.
RequireEnd ==
    /\ fw_pc = "required"
    /\ kernel_modules = <<>>
    /\ required_fw' = {Relative(p, FW) : p \in required}
    /\ unused_size' = 0
    /\ walk' = WalkFrom(fw_tree, FW, listing)
    /\ fw_pc' = "unused"
    /\ UNCHANGED <<fw_tree, fw_before, listing, kernel_modules, firmware, fw_delete,
                   required, dirs_to_check, fw_result, drvVars, symVars, cfgVars>>

\* Lines 140-154: one entry of the walk of remove_unused_files.
UnusedStep ==
    /\ fw_pc = "unused"
    /\ walk # <<>>
    /\ LET st == UnusedBody(fw_tree, Head(walk), required_fw, fw_delete,
                            unused_size)
       IN  /\ fw_tree' = st.tree
           /\ unused_size' = st.size
    /\ walk' = Tail(walk)
    /\ UNCHANGED <<fw_pc, fw_before, listing, kernel_modules, firmware, fw_delete,
                   required, required_fw, dirs_to_check, fw_result, drvVars,
                   symVars, cfgVars>>

\* UnusedEnd going on to the two passes whatever delete is.
UnusedEnd_AlwaysPasses ==
    /\ fw_pc = "unused"
    /\ walk = <<>>
    /\ fw_pc' = "dangling"
    /\ walk' = WalkFrom(fw_tree, FW, listing)
    /\ UNCHANGED fw_result
    /\ UNCHANGED <<fw_tree, fw_before, listing, kernel_modules, firmware, fw_delete,
                   required, required_fw, unused_size, dirs_to_check, drvVars,
                   symVars, cfgVars>>

\* Lines 155, 210-213: remove_unused_files returns; with delete the walk of
\* remove_dangling_symlinks starts, without it cleanup_firmware returns
\* (lines 217-219).
UnusedEnd ==
    /\ fw_pc = "unused"
    /\ walk = <<>>
    /\ IF fw_delete
       THEN /\ fw_pc' = "dangling"
            /\ walk' = WalkFrom(fw_tree, FW, listing)
            /\ UNCHANGED fw_result
       ELSE /\ fw_pc' = "done"
            /\ fw_result' = "Ok"
            /\ UNCHANGED walk
    /\ UNCHANGED <<fw_tree, fw_before, listing, kernel_modules, firmware, fw_delete,
                   required, required_fw, unused_size, dirs_to_check, drvVars,
                   symVars, cfgVars>>

\* Lines 160-169: one entry of the walk of remove_dangling_symlinks.
DanglingStep ==
    /\ fw_pc = "dangling"
    /\ walk # <<>>
    /\ fw_tree' = DanglingBody(fw_tree, Head(walk))
    /\ walk' = Tail(walk)
    /\ UNCHANGED <<fw_pc, fw_before, listing, kernel_modules, firmware, fw_delete,
                   required, required_fw, unused_size, dirs_to_check,
                   fw_result, drvVars, symVars, cfgVars>>

\* Lines 170, 214, 176-184: remove_dangling_symlinks returns and
\* remove_empty_directories lists the directories.
DanglingEnd ==
    /\ fw_pc = "dangling"
    /\ walk = <<>>
    /\ dirs_to_check' = DirsToCheck(fw_tree, FW, listing)
    /\ fw_pc' = "empty"
    /\ UNCHANGED <<fw_tree, fw_before, listing, kernel_modules, firmware, fw_delete,
                   required, required_fw, unused_size, walk, fw_result,
                   drvVars, symVars, cfgVars>>

\* Lines 186-192: one directory of remove_empty_directories; an error
\* leaves cleanup_firmware (line 214).
EmptyStep ==
    /\ fw_pc = "empty"
    /\ dirs_to_check # <<>>
    /\ LET st == EmptyBody(fw_tree, Head(dirs_to_check), FW)
       IN  /\ fw_tree' = st.tree
           /\ IF st.ok
              THEN /\ dirs_to_check' = Tail(dirs_to_check)
                   /\ UNCHANGED <<fw_pc, fw_result>>
              ELSE /\ fw_pc' = "done"
                   /\ fw_result' = "Io"
                   /\ UNCHANGED dirs_to_check
    /\ UNCHANGED <<fw_before, listing, kernel_modules, firmware, fw_delete, required,
                   required_fw, unused_size, walk, drvVars, symVars, cfgVars>>

\* Lines 193, 214-219: remove_empty_directories and cleanup_firmware
\* return.
EmptyEnd ==
    /\ fw_pc = "empty"
    /\ dirs_to_check = <<>>
    /\ fw_pc' = "done"
    /\ fw_result' = "Ok"
    /\ UNCHANGED <<fw_tree, fw_before, listing, kernel_modules, firmware, fw_delete,
                   required, required_fw, unused_size, walk, dirs_to_check,
                   drvVars, symVars, cfgVars>>

NextFirmware ==
    \/ RequireStep
    \/ RequireEnd
    \/ UnusedStep
    \/ UnusedEnd
    \/ DanglingStep
    \/ DanglingEnd
    \/ EmptyStep
    \/ EmptyEnd

SpecFirmware == InitFirmware /\ [][NextFirmware]_vars

(***************************************************************************)
(* Properties of cleanup_firmware.                                         *)
(***************************************************************************)
\* C12: a failing "modinfo -F firmware" for one module does not end the
\* run: cleanup_firmware never returns the error of that command.
C12_LookupFailureRecovered == fw_result # "Command"

\* modinfo answered for a.ko, whose firmware was found, and failed for
\* b.ko: cleanup_firmware has returned the error.
C12_AbortedRun ==
    /\ fw_pc = "done"
    /\ fw_result = "Command"
    /\ firmware[InKernelDir(A_KO)].ok
    /\ ~firmware[InKernelDir(B_KO)].ok
    /\ <<"fw", "required.bin">> \in required
    /\ required_fw = {}

\* The files of the tree that are not required: what Path::is_file holds
\* for, a link to a file included.
UnusedFiles(tree, required_paths) ==
    {p \in DOMAIN tree :
        IsFile(tree, p) /\ Relative(p, FW) \notin required_paths}

\* The sum of the sizes fs::metadata gives for the paths of S.
RECURSIVE TotalSize(_, _)
TotalSize(tree, S) ==
    IF S = {} THEN 0
    ELSE LET p == CHOOSE q \in S : TRUE
         IN  Metadata(tree, p, {}).size + TotalSize(tree, S \ {p})

\* C13: when remove_unused_files returns, its result is the sum of the
\* sizes of the files that were not required; without delete the tree is
\* as it was, with delete exactly those files are gone.
C13_RemoveUnusedFiles ==
    fw_pc = "unused" /\ walk = <<>> =>
        /\ unused_size =
              TotalSize(fw_before, UnusedFiles(fw_before, required_fw))
        /\ ~fw_delete => fw_tree = fw_before
        /\ fw_delete =>
              /\ DOMAIN fw_tree =
                    DOMAIN fw_before \ UnusedFiles(fw_before, required_fw)
              /\ \A p \in DOMAIN fw_tree : fw_tree[p] = fw_before[p]

\* remove_unused_files with delete has returned: unused.bin was met before
\* unused_link, the link to it, which is still there and was not counted.
C13_LinkLeft ==
    /\ fw_pc = "unused"
    /\ walk = <<>>
    /\ fw_delete
    /\ <<"fw", "unused_link">> \in DOMAIN fw_tree
    /\ <<"fw", "unused.bin">> \notin DOMAIN fw_tree
    /\ <<"unused_link">> \notin required_fw
    /\ unused_size <
          TotalSize(fw_before, UnusedFiles(fw_before, required_fw))

\* The scenario of test_remove_unused_files extended by nothing but
\* regular files: in a tree without links the result is the sum and the
\* removal is exact.
C13_NoLinks ==
    fw_pc = "unused" /\ walk = <<>>
        /\ (\A p \in DOMAIN fw_before : fw_before[p].kind # "link") =>
        /\ unused_size =
              TotalSize(fw_before, UnusedFiles(fw_before, required_fw))
        /\ fw_delete =>
              DOMAIN fw_tree =
                 DOMAIN fw_before \ UnusedFiles(fw_before, required_fw)

\* C14: the walks of remove_dangling_symlinks and remove_empty_directories
\* run only with delete; the passes follow one another in the order unused
\* files, dangling links, empty directories, and with delete the first is
\* always followed by the second; without delete the tree stays as it was.
C14_PassOrder ==
    /\ [](fw_pc \in {"dangling", "empty"} => fw_delete)
    /\ [](~fw_delete => fw_tree = fw_before)
    /\ [][fw_pc' # fw_pc =>
            <<fw_pc, fw_pc'>> \in
               {<<"required", "unused">>, <<"required", "done">>,
                <<"unused", "dangling">>, <<"unused", "done">>,
                <<"dangling", "empty">>, <<"empty", "done">>}]_vars
    /\ [][fw_pc = "unused" /\ fw_pc' # fw_pc =>
            fw_pc' = IF fw_delete THEN "dangling" ELSE "done"]_vars
    /\ [][fw_tree' # fw_tree =>
            /\ fw_pc' = fw_pc
            /\ fw_pc = "unused" => IsFile(fw_tree, Head(walk))
            /\ fw_pc = "dangling" => IsSymlink(fw_tree, Head(walk))
            /\ fw_pc = "empty" => fw_tree[Head(dirs_to_check)].kind = "dir"]_vars

\* A run with delete has ended in which each pass removed something: the
\* file unused.bin, the link dangling_link and the directory d.
C14_Witness ==
    /\ fw_pc = "done"
    /\ fw_result = "Ok"
    /\ fw_delete
    /\ <<"fw", "dangling_link">> \in DOMAIN fw_before
    /\ {<<"fw", "unused.bin">>, <<"fw", "dangling_link">>, <<"fw", "d">>}
          \cap DOMAIN fw_tree = {}

\* A run without delete has ended over a tree with a dangling link and
\* empty directories.
C14_WitnessDryRun ==
    /\ fw_pc = "done"
    /\ fw_result = "Ok"
    /\ ~fw_delete
    /\ <<"fw", "dangling_link">> \in DOMAIN fw_tree
    /\ unused_size > 0

\* C15: the firmware directory itself is there in every state of
\* cleanup_firmware, the states of remove_empty_directories among them,
\* and the step that meets it in dirs_to_check leaves the tree as it is.
C15_RootKept ==
    /\ [](fw_pc # "idle" =>
             <<"fw">> \in DOMAIN fw_tree /\ fw_tree[<<"fw">>].kind = "dir")
    /\ [][fw_pc = "empty" /\ dirs_to_check # <<>>
             /\ Head(dirs_to_check) = <<"fw">> =>
                fw_tree' = fw_tree]_vars

\* remove_empty_directories has returned and the firmware directory is
\* empty: no file was required and every directory under it became empty.
C15_Witness ==
    /\ fw_pc = "done"
    /\ fw_result = "Ok"
    /\ fw_delete
    /\ DOMAIN fw_tree = {<<"fw">>}
    /\ Cardinality(DOMAIN fw_before) > 10

(***************************************************************************)
(* read_config on its own (config.rs): the rule files are sequences of at  *)
(* most MaxLines lines of ConfigLines, the first line in one file and the  *)
(* others in a second one, or the lines of test_arch_filter in one file.   *)
(***************************************************************************)
MaxLines == 3

AARCH64 == <<"a", "a", "r", "c", "h", "6", "4">>
PPC64LE == <<"p", "p", "c", "6", "4", "l", "e">>
S390X == <<"s", "3", "9", "0", "x">>

OpenTag(tag) == <<"<">> \o tag \o <<">">>
CloseTag(tag) == <<"<", "/">> \o tag \o <<">">>

\* The lines a rule file of the model is made of: tags, two of them with
\* white space, a keep rule, a delete rule, a comment, an empty line, a
\* line of one space and a pattern that does not compile.
ConfigLines ==
    <<OpenTag(X86_64), CloseTag(X86_64),
      <<" ">> \o OpenTag(AARCH64 \o <<" ">>) \o <<" ">>,
      <<"\t">> \o CloseTag(AARCH64 \o <<" ">>),
      <<"a">>, <<"-", "b">>, <<"#", "c">>, <<>>, <<" ">>, <<"(">>>>

\* The lines of test_arch_filter.
TestArchLines ==
    <<OpenTag(X86_64),
      <<"i", "n", "t", "e", "l", "_", "d", "r", "i", "v", "e", "r">>,
      CloseTag(X86_64),
      OpenTag(AARCH64),
      <<"a", "r", "m", "_", "d", "r", "i", "v", "e", "r">>,
      CloseTag(AARCH64),
      OpenTag(PPC64LE),
      <<"p", "o", "w", "e", "r", "_", "d", "r", "i", "v", "e", "r">>,
      CloseTag(PPC64LE),
      OpenTag(S390X),
      <<"i", "b", "m", "_", "d", "r", "i", "v", "e", "r">>,
      CloseTag(S390X),
      <<"c", "o", "m", "m", "o", "n", "_", "d", "r", "i", "v", "e", "r">>>>

\* The text of a file holding the given lines, each ended by a line feed.
RECURSIVE FileText(_)
FileText(ls) ==
    IF ls = <<>> THEN <<>>
    ELSE Head(ls) \o <<"\n">> \o FileText(Tail(ls))

\* The sequences of at most n lines of ConfigLines.
RECURSIVE LineSeqs(_)
LineSeqs(n) ==
    IF n = 0 THEN {<<>>}
    ELSE LET shorter == LineSeqs(n - 1)
         IN  shorter \cup
                {Append(ls, ConfigLines[i]) :
                    ls \in shorter, i \in 1..Len(ConfigLines)}

TwoFiles(ls) ==
    IF ls = <<>> THEN <<>>
    ELSE <<FileText(<<Head(ls)>>), FileText(Tail(ls))>>

\* Regex::new on the patterns of the model: literal characters and '.'
\* compile, a parenthesis, which stands alone in them, does not.
Compiles(pattern) == ~Contains(pattern, "(") /\ ~Contains(pattern, ")")

\* read_config is called.
InitConfig ==
    /\ pc = "idle"
    /\ disk = <<>>
    /\ modinfo = EmptyMap
    /\ \/ /\ config \in {TwoFiles(ls) : ls \in LineSeqs(MaxLines)}
          /\ arch \in {X86_64, AARCH64}
       \/ /\ config = <<FileText(TestArchLines)>>
          /\ arch \in {X86_64, AARCH64, PPC64LE, S390X}
    /\ delete = FALSE
    /\ to_keep_re = <<>>
    /\ to_delete_re = <<>>
    /\ driver_map = EmptyMap
    /\ to_keep = {}
    /\ worklist = <<>>
    /\ to_delete = {}
    /\ runs = <<>>
    /\ pops = 0
    /\ pushes = EmptyMap
    /\ SymIdle
    /\ FwIdle
    /\ cfg_pc = "start"
    /\ cfg_lines = <<>>
    /\ filtered_lines = <<>>
    /\ cfg_result = "none"

cfgFrame ==
    <<pc, disk, modinfo, config, arch, delete, driver_map, to_keep, worklist,
      to_delete, runs, pops, pushes, symVars, fwVars>>

\* Lines 12-23: the files are read and the empty lines and the comments
\* are dropped.
ReadLines ==
    /\ cfg_pc = "start"
    /\ cfg_lines' = SelectSeq(AllLines(config), IsRuleLine)
    /\ cfg_pc' = "lines"
    /\ UNCHANGED <<filtered_lines, cfg_result, to_keep_re, to_delete_re,
                   cfgFrame>>

\* Lines 25-27.
ArchFilter ==
    /\ cfg_pc = "lines"
    /\ filtered_lines' = arch_filter(cfg_lines, arch)
    /\ cfg_pc' = "filtered"
    /\ UNCHANGED <<cfg_lines, cfg_result, to_keep_re, to_delete_re, cfgFrame>>

\* Lines 29-43: the lines are parted and compiled; a pattern that does not
\* compile ends read_config with an error and no rule.
Partition ==
    /\ cfg_pc = "filtered"
    /\ LET rules == read_config(config, arch)
           Bad(ps) == \E i \in 1..Len(ps) : ~Compiles(ps[i])
       IN  IF Bad(rules.to_keep) \/ Bad(rules.to_delete)
           THEN /\ cfg_result' = "Regex"
                /\ UNCHANGED <<to_keep_re, to_delete_re>>
           ELSE /\ cfg_result' = "Ok"
                /\ to_keep_re' = rules.to_keep
                /\ to_delete_re' = rules.to_delete
    /\ cfg_pc' = "done"
    /\ UNCHANGED <<cfg_lines, filtered_lines, cfgFrame>>

NextConfig == ReadLines \/ ArchFilter \/ Partition

SpecConfig == InitConfig /\ [][NextConfig]_vars

(***************************************************************************)
(* Properties of read_config and arch_filter.                             *)
(***************************************************************************)
IsTag(l) == StartTag(l) # <<>> \/ IsEndTag(l)

\* The index of the last tag line before line i, 0 when there is none.
LastTag(ls, i) ==
    LET tags == {j \in 1..(i - 1) : IsTag(ls[j])}
    IN  IF tags = {} THEN 0
        ELSE CHOOSE j \in tags : \A k \in tags : k <= j

\* Line i is no tag and lies outside every block or in a block opened by
\* the tag of the architecture a.
KeptLine(ls, a, i) ==
    /\ ~IsTag(ls[i])
    /\ LET j == LastTag(ls, i)
       IN  j = 0 \/ IsEndTag(ls[j]) \/ StartTag(ls[j]) = a

CountKept(ls, a, i) == Cardinality({j \in 1..i : KeptLine(ls, a, j)})

\* C16: the result of arch_filter is made of the lines that are no tag and
\* lie outside every block or in a block of the architecture, in the order
\* of the input; on the lines of test_arch_filter it is the line of the
\* block of the architecture followed by the untagged line.
C16_ArchFilter ==
    cfg_pc \in {"filtered", "done"} =>
        /\ Len(filtered_lines) = CountKept(cfg_lines, arch, Len(cfg_lines))
        /\ \A i \in 1..Len(cfg_lines) :
              KeptLine(cfg_lines, arch, i) =>
                 filtered_lines[CountKept(cfg_lines, arch, i)] = cfg_lines[i]
        /\ \A i \in 1..Len(filtered_lines) : ~IsTag(filtered_lines[i])
        /\ config = <<FileText(TestArchLines)>> =>
              \E k \in {1, 4, 7, 10} :
                 /\ TestArchLines[k] = OpenTag(arch)
                 /\ filtered_lines = <<TestArchLines[k + 1], TestArchLines[13]>>

\* The lines of test_arch_filter have been filtered for ppc64le.
C16_Witness ==
    /\ cfg_pc = "filtered"
    /\ config = <<FileText(TestArchLines)>>
    /\ arch = PPC64LE
    /\ filtered_lines = <<TestArchLines[8], TestArchLines[13]>>

\* The line of a block of another architecture, whose tags are written
\* with white space, has been skipped.
C16_WitnessSkipped ==
    /\ cfg_pc = "filtered"
    /\ arch = X86_64
    /\ cfg_lines = <<ConfigLines[3], ConfigLines[5], ConfigLines[4]>>
    /\ filtered_lines = <<>>

\* The lines of the rule files, file after file.
RawLines ==
    IF config = <<>> THEN <<>>
    ELSE IF Len(config) = 1 THEN Lines(config[1])
    ELSE Lines(config[1]) \o Lines(config[2])

NotDropped(l) == l # <<>> /\ l[1] # "#"

Dashed(l) == l # <<>> /\ l[1] = "-"

NotDashed(l) == ~Dashed(l)

\* How many of the first i lines of ls pass the test.
Count(ls, i, Test(_)) == Cardinality({j \in 1..i : Test(ls[j])})

\* C17: the lines that are not empty and do not begin with '#' go on, in
\* the order of the files and of their lines, to the architecture filter;
\* of the lines that filter keeps, each one beginning with '-' gives one
\* delete rule, the line without the '-', each other one gives one keep
\* rule, the whole line, and both lists are in the order of the lines.
C17_Partition ==
    /\ cfg_pc # "idle" /\ cfg_pc # "start" =>
          /\ Len(cfg_lines) = Count(RawLines, Len(RawLines), NotDropped)
          /\ \A i \in 1..Len(RawLines) :
                NotDropped(RawLines[i]) =>
                   cfg_lines[Count(RawLines, i, NotDropped)] = RawLines[i]
    /\ cfg_pc = "done" /\ cfg_result = "Ok" =>
          /\ Len(to_keep_re) + Len(to_delete_re) = Len(filtered_lines)
          /\ \A i \in 1..Len(filtered_lines) :
                LET l == filtered_lines[i]
                IN  IF Dashed(l)
                    THEN to_delete_re[Count(filtered_lines, i, Dashed)]
                            = SubSeq(l, 2, Len(l))
                    ELSE to_keep_re[Count(filtered_lines, i, NotDashed)] = l

\* Two files, "-b" in the first, a comment or an empty line and then "a"
\* in the second, have given the keep rule a and the delete rule b.
C17_Witness ==
    /\ cfg_pc = "done"
    /\ cfg_result = "Ok"
    /\ Len(config) = 2
    /\ Len(RawLines) = 3
    /\ RawLines[1] = <<"-", "b">>
    /\ ~NotDropped(RawLines[2])
    /\ to_keep_re = <<<<"a">>>>
    /\ to_delete_re = <<<<"b">>>>

\* A line of one space is not empty: it has given a keep rule.
C17_WitnessSpace ==
    /\ cfg_pc = "done"
    /\ cfg_result = "Ok"
    /\ to_keep_re = <<<<" ">>, <<"a">>>>

\* The text matches the pattern as a whole, a '*' standing for any run of
\* characters other than '/'.
RECURSIVE PathMatch(_, _)
PathMatch(pat, text) ==
    IF pat = <<>> THEN text = <<>>
    ELSE IF Head(pat) = "*"
         THEN \/ PathMatch(Tail(pat), text)
              \/ /\ text # <<>>
                 /\ Head(text) # "/"
                 /\ PathMatch(pat, Tail(text))
    ELSE /\ text # <<>>
         /\ Head(pat) = Head(text)
         /\ PathMatch(Tail(pat), Tail(text))

\* The entries under the firmware directory whose path matches the name
\* joined to the directory, as it is or followed by .xz or .zst.
Matching(tree, fw_name) ==
    {p \in DOMAIN tree :
        /\ Len(p) > Len(FW)
        /\ PathStartsWith(p, FW)
        /\ \E e \in 1..3 :
              PathMatch(JoinText(FW, fw_name) \o Extensions[e], PathText(p))}

SdioBin == <<"fw", "brcm", "brcmfmac43430-sdio.bin">>
SdioBinXz == <<"fw", "brcm", "brcmfmac43430-sdio.bin.xz">>
SdioTxt == <<"fw", "brcm", "brcmfmac43430-sdio.txt">>

\* a.ko declares brcm/brcmfmac*-sdio.bin.
DeclaresSdio ==
    /\ firmware[InKernelDir(A_KO)].ok
    /\ FirmwareNames[2] \in Range(Lines(firmware[InKernelDir(A_KO)].out))

\* C18: what find_firmware_files_from_name finds for a name with a '*' is
\* the set of the entries under the firmware directory whose path matches
\* the name, the name with .xz or the name with .zst.  When a module
\* declares brcm/brcmfmac*-sdio.bin, brcmfmac43430-sdio.bin and
\* brcmfmac43430-sdio.bin.xz are required where they are there, and
\* brcmfmac43430-sdio.txt is never required.
C18_Wildcard ==
    fw_pc # "idle" =>
        /\ fw_pc = "required" /\ kernel_modules # <<>>
              /\ firmware[Head(kernel_modules)].ok =>
              LET declared == Lines(firmware[Head(kernel_modules)].out)
              IN  \A i \in 1..Len(declared) :
                     Contains(declared[i], "*") =>
                        find_firmware_files_from_name(fw_tree, declared[i], FW)
                           = Matching(fw_tree, declared[i])
        /\ SdioTxt \notin required
        /\ Relative(SdioTxt, FW) \notin required_fw
        /\ fw_pc \in {"unused", "dangling", "empty"} /\ DeclaresSdio =>
              \A p \in {SdioBin, SdioBinXz} \cap DOMAIN fw_before :
                 p \in required /\ Relative(p, FW) \in required_fw

\* brcm/brcmfmac*-sdio.bin is declared and the tree holds the .bin.xz file
\* and the .txt file: the first is required and the second is not.
C18_Witness ==
    /\ fw_pc = "unused"
    /\ DeclaresSdio
    /\ SdioBinXz \in DOMAIN fw_before
    /\ SdioBin \notin DOMAIN fw_before
    /\ SdioTxt \in DOMAIN fw_before
    /\ required_fw = {Relative(SdioBinXz, FW)}

\* *.bin is declared: required.bin, unused.bin and required.bin.zst are
\* required, and nothing of the directory brcm.
C18_WitnessTop ==
    /\ fw_pc = "unused"
    /\ required_fw =
          {<<"required.bin">>, <<"unused.bin">>, <<"required.bin.zst">>}
    /\ SdioBin \in DOMAIN fw_before

(***************************************************************************)
(* Properties of the worklist of cleanup_drivers.                          *)
(***************************************************************************)
\* C19: no step of cleanup_drivers takes a driver out of to_keep: from the
\* seeding on, through every iteration of the while loop and up to the
\* return, the set only grows.
C19_Monotonic == [][to_keep \subseteq to_keep']_vars

\* The loop has ended after three iterations or more with a keep set
\* larger than the seed.
C19_Witness ==
    /\ pc = "done"
    /\ pops >= 3
    /\ SeedLoop(driver_map, to_keep_re, to_delete_re) # {}
    /\ SeedLoop(driver_map, to_keep_re, to_delete_re) # to_keep
    /\ SeedLoop(driver_map, to_keep_re, to_delete_re) \subseteq to_keep

\* C20: in one run of the closure every driver of the inventory is pushed
\* at most once, the kept ones exactly once: the seeded ones when the
\* worklist is made, a dependency in the iteration that inserts it into
\* to_keep and in no other; the iterations run so far are the pushes less
\* the drivers waiting, and never more than the inventory holds drivers.
C20_PushedOnce ==
    /\ [](pc \in {"closure", "delete", "done"} =>
             /\ \A n \in DOMAIN driver_map :
                   pushes[n] = IF driver_map[n] \in to_keep THEN 1 ELSE 0
             /\ pops + Len(worklist) = Cardinality(to_keep)
             /\ pops <= Cardinality(Values(driver_map)))
    /\ [][pc = "closure" /\ pc' = "closure" =>
             \A n \in DOMAIN driver_map :
                pushes'[n] > pushes[n] =>
                   /\ driver_map[n] \notin to_keep
                   /\ driver_map[n] \in to_keep'
                   /\ n \in Range(worklist[Len(worklist)].deps)]_vars

\* The loop has ended; two kept drivers depend on one driver, which was
\* pushed once, and a kept driver depends on a driver kept before it.
C20_Witness ==
    /\ pc = "done"
    /\ pops = Cardinality(to_keep)
    /\ pops >= 3
    /\ \E d1 \in to_keep, d2 \in to_keep :
          /\ d1 # d2
          /\ Range(d1.deps) \cap Range(d2.deps) \cap DOMAIN driver_map # {}

(***************************************************************************)
(* The closure in any processing order.                                    *)
(***************************************************************************)
\* The sequence without its i-th element.
RemoveAt(seq, i) == SubSeq(seq, 1, i - 1) \o SubSeq(seq, i + 1, Len(seq))

\* The iteration of lines 91-102 with the driver at any index of the
\* worklist taken from it in place of the last one: the orders the loop
\* would process the drivers in under any worklist discipline.
PopAny ==
    /\ pc = "closure"
    /\ worklist # <<>>
    /\ pops < MaxPops
    /\ \E i \in 1..Len(worklist) :
         LET driver == worklist[i]
             st == DepsLoop(driver.deps, 1, driver_map,
                            [keep |-> to_keep,
                             work |-> RemoveAt(worklist, i)])
         IN  /\ to_keep' = st.keep
             /\ worklist' = st.work
             /\ pushes' = [n \in DOMAIN driver_map |->
                              pushes[n] + Pushed(worklist, st.work, driver_map[n])]
    /\ pops' = pops + 1
    /\ UNCHANGED <<pc, disk, modinfo, config, arch, delete, to_keep_re,
                   to_delete_re, driver_map, to_delete, runs,
                   symVars, fwVars, cfgVars>>

NextAnyOrder == Scan \/ Seed \/ PopAny \/ Plan \/ Delete

SpecAnyOrder == Init /\ [][NextAnyOrder]_vars

\* C21: for a fixed seed set and dependency graph the keep set the loop ends
\* with is the same in every processing order: whatever the iteration order
\* of the seed set and whichever driver is taken from the worklist at each
\* step, it is the seed with every driver reachable from it.
C21_OrderIndependent ==
    LoopEnded =>
        to_keep = Reachable(SeedLoop(driver_map, to_keep_re, to_delete_re))

\* Out of stack order: the seeded driver a pushed b and then c, and b was
\* processed while c, pushed after it, still waits on the worklist.
C21_Witness ==
    /\ pc = "closure"
    /\ pops = 2
    /\ {Name("a"), Name("b"), Name("c")} \subseteq DOMAIN driver_map
    /\ driver_map[Name("a")].deps = <<Name("b"), Name("c")>>
    /\ SeedLoop(driver_map, to_keep_re, to_delete_re) = {driver_map[Name("a")]}
    /\ worklist = <<driver_map[Name("c")]>>
    /\ to_keep = {driver_map[Name(n)] : n \in {"a", "b", "c"}}

(***************************************************************************)
(* Further properties of resolve_symlinks.                                 *)
(***************************************************************************)
\* C22: resolve_symlinks returns on every file system layout, cyclic link
\* structures included: every step it takes either returns or is one more
\* hop, and there are never more than 10 hops.  It returns at most 11 paths,
\* one more than the hops followed.
C22_HopBound ==
    /\ [][rs_pc = "loop" => rs_pc' = "done" \/ hops' = hops + 1]_vars
    /\ [](rs_pc = "loop" => hops <= 10)
    /\ [](hops <= 10 /\ Len(paths_to_keep) <= 11)
    /\ [](Len(paths_to_keep) <= hops + 1)

\* The bound has ended the walk: 10 hops were followed along a chain of
\* more than 10 links and 11 paths are returned.
C22_Witness ==
    /\ rs_pc = "done"
    /\ hops = 10
    /\ Len(paths_to_keep) = 11
    /\ IsLink(current_path)

\* The walk from a link that leads into a cycle of links has returned.
C22_WitnessCycle ==
    /\ rs_pc = "done"
    /\ result = "Ok"
    /\ ~InCycle(path)
    /\ IsLink(path)
    /\ InCycle(NextOf(path))

\* No path occurs twice in the sequence.
NoRepeat(seq) == \A i, j \in 1..Len(seq) : seq[i] = seq[j] => i = j

\* The starting path followed by each successive hop target, at most k hops,
\* up to the first target outside the base directory or not on disk.
RECURSIVE HopByHop(_, _)
HopByHop(p, k) ==
    IF k = 0 \/ ~IsLink(p) THEN <<p>>
    ELSE IF ~PathStartsWith(NextOf(p), base_dir) \/ NextOf(p) \notin DOMAIN fs
    THEN <<p>>
    ELSE <<p>> \o HopByHop(NextOf(p), k - 1)

\* C23: the result is the starting path followed by each successive hop
\* target, up to the first hop whose target is outside the base directory or
\* is not on disk; a link that is on disk is included whatever it points to.
\* Stated for the chains that do not lead into a cycle of links.
C23_HopByHop ==
    rs_pc = "done" /\ result = "Ok" /\ NoRepeat(Chain(path, MaxChain + 2)) =>
        paths_to_keep = HopByHop(path, 10)

\* l2 -> l1 -> missing has been resolved from l2: l1 is on disk as a link and
\* the result is l2 alone.
C23_IntermediateDropped ==
    /\ rs_pc = "done"
    /\ result = "Ok"
    /\ path = LinkPath(2)
    /\ NextOf(path) = LinkPath(1)
    /\ IsLink(LinkPath(1))
    /\ NextOf(LinkPath(1)) = <<"fw", "missing">>
    /\ <<"fw", "missing">> \notin DOMAIN fs
    /\ paths_to_keep = <<LinkPath(2)>>

\* The same with the target of every hop required to lead to something that
\* is there: then the result is the hop-by-hop list.
C23_UnbrokenHops ==
    rs_pc = "done" /\ result = "Ok"
        /\ (\A i \in 1..Len(HopByHop(path, 10)) :
               Exists(fs, HopByHop(path, 10)[i]) \/ i = 1)
        => paths_to_keep = HopByHop(path, 10)

\* C24: the list resolve_symlinks returns never holds the same path twice.
C24_NoRevisit == rs_pc = "done" => NoRepeat(paths_to_keep)

\* The walk from the link x -> dl/../x, where dl is a link to the directory
\* d/e and d/x a regular file, has returned x eleven times: clean() makes
\* the target x itself, and x exists as the kernel resolves it to d/x.
C24_Revisited ==
    /\ rs_pc = "done"
    /\ result = "Ok"
    /\ path = <<"fw", "x">>
    /\ <<"fw", "d", "x">> \in DOMAIN fs
    /\ Len(paths_to_keep) = 11
    /\ \A i \in 1..11 : paths_to_keep[i] = path

\* On the trees where no link points to a directory no path is returned
\* twice, chains that lead into a cycle of links included.
C24_NoRevisitPlainLinks ==
    rs_pc = "done" /\ fs \notin DirLinkTrees => NoRepeat(paths_to_keep)

(***************************************************************************)
(* Further properties of arch_filter.                                      *)
(***************************************************************************)
\* What arch_filter gives for the first i of the lines.
FilteredUpTo(ls, a, i) == arch_filter(SubSeq(ls, 1, i), a)

\* C25: arch_filter keeps no stack of tags.  A tag line is never kept.  A
\* line that is no tag is kept when the last tag line before it is an end
\* tag, whatever name it carries and whatever was open before it, or when
\* there is none; when that last tag line is a start tag, the line is kept
\* exactly when that tag is the architecture, whatever was open before it.
C25_NoStack ==
    cfg_pc \in {"filtered", "done"} =>
        /\ filtered_lines = FilteredUpTo(cfg_lines, arch, Len(cfg_lines))
        /\ \A i \in 1..Len(cfg_lines) :
              LET before == FilteredUpTo(cfg_lines, arch, i - 1)
                  after == FilteredUpTo(cfg_lines, arch, i)
                  j == LastTag(cfg_lines, i)
              IN  IF IsTag(cfg_lines[i]) THEN after = before
                  ELSE IF j = 0 \/ IsEndTag(cfg_lines[j])
                  THEN after = Append(before, cfg_lines[i])
                  ELSE IF StartTag(cfg_lines[j]) = arch
                  THEN after = Append(before, cfg_lines[i])
                  ELSE after = before

\* A block of the architecture opened inside an open block of another
\* architecture: the line after the second start tag is kept.
C25_Witness ==
    /\ cfg_pc = "filtered"
    /\ arch = X86_64
    /\ cfg_lines = <<ConfigLines[3], ConfigLines[1], ConfigLines[5]>>
    /\ filtered_lines = <<ConfigLines[5]>>

\* A block of another architecture closed by the end tag of a different
\* name: the line after the end tag is kept.
C25_WitnessEndTag ==
    /\ cfg_pc = "filtered"
    /\ arch = X86_64
    /\ cfg_lines = <<ConfigLines[3], ConfigLines[2], ConfigLines[5]>>
    /\ filtered_lines = <<ConfigLines[5]>>

(***************************************************************************)
(* Further properties of cleanup_firmware.                                 *)
(***************************************************************************)
\* p is a proper prefix of q.
Below(q, p) == Len(q) > Len(p) /\ SubSeq(q, 1, Len(p)) = p

\* The directory p holds, at some depth, an entry that is no directory.
HoldsEntry(tree, p) ==
    \E q \in DOMAIN tree : Below(q, p) /\ tree[q].kind # "dir"

\* C26: a step of remove_empty_directories leaves in place every file and
\* link and every directory that holds one at some depth, its ancestors with
\* it; when the pass has ended without error no directory but the root is
\* empty: the directories that held nothing but empty directories, at any
\* depth, are gone.
C26_DeepestFirst ==
    /\ [][fw_pc = "empty" =>
            \A p \in DOMAIN fw_tree :
               (fw_tree[p].kind # "dir" \/ HoldsEntry(fw_tree, p)) =>
                  p \in DOMAIN fw_tree' /\ fw_tree'[p] = fw_tree[p]]_vars
    /\ [](fw_pc = "done" /\ fw_result = "Ok" /\ fw_delete =>
            \A p \in DOMAIN fw_tree :
               fw_tree[p].kind = "dir" /\ p # FW =>
                  Children(fw_tree, p) # {} /\ HoldsEntry(fw_tree, p))

\* The pass has removed a/b, a/c and then a, which held nothing else once
\* a/c/file.txt was deleted, and it has left brcm, which holds a file.
C26_Witness ==
    /\ fw_pc = "done"
    /\ fw_result = "Ok"
    /\ fw_delete
    /\ {<<"fw", "a">>, <<"fw", "a", "b">>, <<"fw", "a", "c">>}
          \cap DOMAIN fw_tree = {}
    /\ <<"fw", "brcm">> \in DOMAIN fw_tree
    /\ Children(fw_tree, <<"fw", "brcm">>) # {}

\* The pass has removed a/b and left a/c, which holds a file, and a.
C26_WitnessKept ==
    /\ fw_pc = "done"
    /\ fw_result = "Ok"
    /\ fw_delete
    /\ <<"fw", "a", "b">> \notin DOMAIN fw_tree
    /\ {<<"fw", "a">>, <<"fw", "a", "c">>, <<"fw", "a", "c", "file.txt">>}
          \subseteq DOMAIN fw_tree

(***************************************************************************)
(* Further properties of cleanup_drivers.                                  *)
(***************************************************************************)
\* The inventory drivers matched by a keep rule and by no delete rule.
RuleSeed == {d \in Values(driver_map) : ~DeleteMatched(d) /\ KeepMatched(d)}

\* C27: from the seeding on, the keep set holds only drivers of the
\* inventory, and each of them was seeded or is reachable from a seeded
\* driver along inventory-present dependency names; a driver that is
\* neither is never kept.
C27_Minimal ==
    pc \in {"closure", "delete", "done"} =>
        /\ to_keep \subseteq Values(driver_map)
        /\ to_keep \subseteq Reachable(RuleSeed)
        /\ \A d \in Values(driver_map) \ Reachable(RuleSeed) : d \notin to_keep

\* A run has ended with a driver kept as a dependency only, a kept driver
\* that lists a name of nothing in the inventory, and a driver that no
\* seeded driver reaches left out though it depends on a kept one.
C27_Witness ==
    /\ pc = "done"
    /\ to_keep # RuleSeed
    /\ \E d \in to_keep : \E i \in 1..Len(d.deps) : d.deps[i] \notin DOMAIN driver_map
    /\ \E d \in Values(driver_map) \ to_keep :
          \E i \in 1..Len(d.deps) :
             d.deps[i] \in DOMAIN driver_map /\ driver_map[d.deps[i]] \in to_keep

\* The paths of the drivers of S.
PathsOf(S) == {d.path : d \in S}

\* C28: when the deletion list has been computed, every module file found
\* under the kernel directory is the file of a kept driver or of a driver of
\* the deletion list.
C28_Classified ==
    pc = "delete" =>
        \A f \in Range(ModuleFiles(disk)) :
            f \in PathsOf(to_keep) \cup PathsOf(to_delete)

\* a.ko and x/a.ko.xz are both module files of the kernel directory and no
\* rule keeps anything: one of the two is in neither set, and a deleting run
\* has left it on disk.
C28_SameStem ==
    /\ pc = "done"
    /\ delete
    /\ to_keep = {}
    /\ \E f \in {InKernelDir(A_KO), InKernelDir(XA_KO_XZ)} :
          /\ f \in Range(disk)
          /\ f \notin PathsOf(to_delete)

\* With one module file for each name stem every module file is classified.
C28_ClassifiedDistinctStems ==
    pc = "delete" /\ InKernelDir(XA_KO_XZ) \notin Range(disk) =>
        \A f \in Range(ModuleFiles(disk)) :
            f \in PathsOf(to_keep) \cup PathsOf(to_delete)

\* C29: none of the three passes of a deleting run removes a file or a link
\* of the required set, and when the run has ended without error every path
\* of the required set is still on disk.
C29_RequiredSurvives ==
    /\ [][fw_delete /\ fw_pc \in {"unused", "dangling", "empty"} =>
            (\A p \in required \cap DOMAIN fw_tree :
                fw_tree[p].kind # "dir" => p \in DOMAIN fw_tree')]_vars
    /\ [](fw_pc = "done" /\ fw_result = "Ok" /\ fw_delete =>
            required \subseteq DOMAIN fw_tree)


\* The wildcard name *_link has matched the dangling link, which is in the
\* required set, and the run has ended without error with the link removed.
C29_RequiredLinkRemoved ==
    /\ fw_pc = "done"
    /\ fw_result = "Ok"
    /\ fw_delete
    /\ <<"fw", "dangling_link">> \in required
    /\ <<"fw", "dangling_link">> \in DOMAIN fw_before
    /\ <<"fw", "dangling_link">> \notin DOMAIN fw_tree

\* The required paths that led to a file or a directory when
\* cleanup_firmware was called are all on disk when it has ended without
\* error.
C29_RequiredNotDanglingSurvives ==
    fw_pc = "done" /\ fw_result = "Ok" /\ fw_delete =>
        \A p \in required :
            Metadata(fw_before, p, {}).kind # "none" => p \in DOMAIN fw_tree


=============================================================================
